---- MODULE Spec2Model ----
(***************************************************************************)
(* A model of the monitoring engine CPUMonitorCore (src/cpu_core.py):      *)
(* the worker thread's _monitor_loop, the per-process reader               *)
(* _get_process_info with its TTL cache, the per-PID CPU history with its  *)
(* 180 s rolling average, the system history ring, and the control API.    *)
(*                                                                         *)
(* Time is counted in whole seconds.  ProcessInfo objects live in a heap   *)
(* and are referred to by identity, because the cache, the published list  *)
(* and the lists handed to readers share the same Python objects.          *)
(* Floating-point averages are kept as exact reduced fractions <<n, d>>.   *)
(*                                                                         *)
(* Several specifications share the variables:                             *)
(*   Spec      the worker's process-list cycle, with callers that request  *)
(*             updates and read the list;                                  *)
(*   SpecThr   the same cycle, with callers that request updates and set   *)
(*             the threshold;                                              *)
(*   SpecLoop  the loop's control: update requests, the tick interval,     *)
(*             shutdown, and what the sleep raises (SpecLoopFair adds the  *)
(*             scheduling of the thread);                                  *)
(*   SpecKill  the cycle with callers of kill_process;                     *)
(*   SpecAvg   the CPU history tracker driven with arbitrary clock values; *)
(*   SpecHist  the system-stat sampling and its history ring;              *)
(*   SpecStats the same sampling statement by statement, against readers;  *)
(*   SpecLock  who holds data_lock (SpecLockFair adds the scheduling);     *)
(*   SpecRace  a full tick over three processes against kill_process;      *)
(*   SpecTop   a full tick over more than 100 processes;                   *)
(*   SpecReclaim  the cycle followed for longer than the history window   *)
(*             while processes end (SpecReclaimFair adds the scheduling); *)
(*   SpecReuse the cycle while a PID is given to a new process.           *)
(***************************************************************************)
EXTENDS Integers, Sequences, FiniteSets, TLC

VARIABLES
    clock,                \* time.time(), in seconds
    threshold,            \* self.threshold
    update_event,         \* self.update_event (is it set)
    process_data,         \* self.process_data: sequence of object ids
    heap,                 \* the live ProcessInfo objects, by object id
    process_cache,        \* self.process_cache: pid -> [info, timestamp]
    last_cache_cleanup,   \* self.last_cache_cleanup
    process_cpu_history,  \* self.process_cpu_history: pid -> <<t, cpu>>*
    pc,                   \* the worker's position in _monitor_loop
    current_time,         \* _monitor_loop's local current_time
    last_full_update,     \* _monitor_loop's local last_full_update
    processes,            \* _monitor_loop's local processes
    candidates,           \* the part of process_iter still to be read
    path,                 \* "primary" or "fallback" enumeration
    retObjs,              \* the list last returned by get_process_list
    thrSet,               \* set_threshold was called since the last publish
    fullTicks,            \* number of full ticks started
    lookup,               \* what the last _get_process_info call did
    history_data,         \* self.history_data: cpu, memory, timestamps
    sampleCount,          \* number of successful system-stat samples
    histRead,             \* the last result of get_history_data
    avgQuery,             \* the last _calculate_average_cpu call and result
    reqs,                 \* the last request_update calls: how many, made when, served
    running,              \* self.running
    update_interval,      \* self.update_interval, a fraction <<n, d>> of seconds
    shut,                 \* the caller of shutdown(): position and calls made
    stoppedAsleep,        \* shutdown() was called while the worker slept
    lastSet,              \* the argument of the last set_update_interval call
    table,                \* the PIDs the OS reports when asked for its processes
    platform,             \* sys.platform
    kill,                 \* the caller of kill_process(): position, pid, result
    info_local,           \* _get_process_info's local info, read and not yet cached
    notFound,             \* the PIDs kill_process found no process for
    data_lock,            \* self.data_lock: its holder, or "free"
    upc,                  \* the position in _update_system_stats
    system_data,          \* self.system_data: cpu_percent, memory_percent
    statsRead,            \* the last result of get_system_stats
    reader,               \* a caller of the read API: position, call, did it wait
    left,                 \* the PIDs whose process ended with entries held for it
    holder                \* for a PID given to a new process: the process that
                          \* holds it, and the samples kept for the PID by then

procVars == <<clock, threshold, update_event, process_data, heap, process_cache,
              last_cache_cleanup, process_cpu_history, pc, current_time,
              last_full_update, processes, candidates, path, retObjs, thrSet,
              fullTicks, lookup, reqs>>
histVars == <<history_data, sampleCount, histRead>>
avgVars == <<avgQuery>>
ctlVars == <<running, update_interval, shut, stoppedAsleep, lastSet>>
envVars == <<table, platform>>
killVars == <<kill, info_local, notFound>>
statVars == <<data_lock, upc, system_data, statsRead>>
lockVars == <<reader>>
exitVars == <<left, holder>>
restVars == <<ctlVars, envVars, killVars, statVars, lockVars, exitVars>>
vars == <<procVars, histVars, avgVars, restVars>>

----------------------------------------------------------------------------
(* Program constants *)

cache_ttl == 5
history_window == 180
history_max_points == 100
FullUpdatePeriod == 5
CacheCleanupPeriod == 30
MaxProcesses == 100
DefaultThreshold == 70
DefaultUpdateInterval == 2
IntervalFloor == <<1, 2>>

(* Bounds of the model *)

NumPids == 2
MaxTime == 5
MaxSleep == 3
MaxFullTicks == 2
MaxAvgSamples == 4
MaxSamples == 102
StartTime == 1000
MaxRequests == 2
MaxShutdowns == 2
MaxTable == 101
LastExit == 6
MaxReuse == 1

PIDs == 1 .. NumPids
ObjIds == 1 .. (4 * NumPids)
CpuVals == {10, 80}
ThresholdVals == {DefaultThreshold, 5}
IntervalArgs == {<<-1, 1>>, <<0, 1>>, <<DefaultUpdateInterval, 1>>}
Platforms == {"win32", "linux"}

----------------------------------------------------------------------------
(* Exact arithmetic for the float averages *)

RECURSIVE GCD(_, _)
GCD(a, b) == IF b = 0 THEN a ELSE GCD(b, a % b)

Rat(n, d) == LET g == GCD(n, d) IN <<n \div g, d \div g>>

RatGt(a, b) == a[1] * b[2] > b[1] * a[2]

RatGe(a, b) == a[1] * b[2] >= b[1] * a[2]

Range(s) == {s[i] : i \in DOMAIN s}

\* A cut that keeps everything.
TakeAll(s, n) == s

Take(s, n) == SubSeq(s, 1, IF Len(s) < n THEN Len(s) ELSE n)

\* The sequences without repetition over a set: what an enumeration of the
\* process table can report.
RECURSIVE InjSeqs(_)
InjSeqs(S) ==
    IF S = {} THEN {<<>>}
    ELSE {<<>>} \cup UNION {{<<x>> \o s : s \in InjSeqs(S \ {x})} : x \in S}

----------------------------------------------------------------------------
(* CPU history tracker *)

RECURSIVE SumCpu(_)
SumCpu(samples) ==
    IF samples = <<>> THEN 0 ELSE Head(samples)[2] + SumCpu(Tail(samples))

\* A window that leaves out the sample at exactly the cutoff.
InWindowStrict(t, cutoff_time) == t > cutoff_time

InWindow(t, cutoff_time) == t >= cutoff_time

RecentSamples(samples, now) ==
    LET cutoff_time == now - history_window
        Keep(s) == InWindow(s[1], cutoff_time)
    IN SelectSeq(samples, Keep)

UpdateProcessCpuHistory(hist, pid, now, cpu_percent) ==
    LET old == IF pid \in DOMAIN hist THEN hist[pid] ELSE <<>>
    IN [p \in (DOMAIN hist) \cup {pid} |->
            IF p = pid THEN Append(old, <<now, cpu_percent>>) ELSE hist[p]]

\* An average that divides the window's sum by the count of all samples.
CalculateAverageCpuAllCount(hist, pid, now) ==
    IF pid \notin DOMAIN hist THEN Rat(0, 1)
    ELSE LET recent_history == RecentSamples(hist[pid], now)
         IN IF recent_history = <<>> THEN Rat(0, 1)
            ELSE Rat(SumCpu(recent_history), Len(hist[pid]))

CalculateAverageCpu(hist, pid, now) ==
    IF pid \notin DOMAIN hist THEN Rat(0, 1)
    ELSE LET recent_history == RecentSamples(hist[pid], now)
         IN IF recent_history = <<>> THEN Rat(0, 1)
            ELSE Rat(SumCpu(recent_history), Len(recent_history))

\* A cleanup that prunes nothing.
CleanupKeepsOld(hist, now) == hist

\* A cleanup that keeps the entry of a PID with no sample left.
CleanupKeepsEmpty(hist, now) == [p \in DOMAIN hist |-> RecentSamples(hist[p], now)]

CleanupProcessHistory(hist, now) ==
    LET kept == {p \in DOMAIN hist : RecentSamples(hist[p], now) # <<>>}
    IN [p \in kept |-> RecentSamples(hist[p], now)]

----------------------------------------------------------------------------
(* ProcessInfo objects and the process info cache *)

\* The process that holds pid: the first one the PID was given to is 0.  Its
\* name, user and command (lines 187, 199, 208) stand for it.
Holder(pid) == IF pid \in DOMAIN holder THEN holder[pid].name ELSE 0

\* The fields of ProcessInfo the engine computes from, and a mark that is
\* not a field: the object was read before its process was terminated.
ProcessInfo(pid, cpu_percent, status, avg_cpu_percent) ==
    [pid |-> pid, name |-> Holder(pid), cpu_percent |-> cpu_percent,
     status |-> status, avg_cpu_percent |-> avg_cpu_percent,
     read_before_kill |-> FALSE]

StatusOf(cpu_percent, thr) == IF cpu_percent > thr THEN "HIGH" ELSE "Normal"

\* A TTL test that takes the cheap path at any age.
CacheFreshAlways(age) == TRUE

\* A TTL test that still takes the cheap path at an age of exactly the TTL.
CacheFreshInclusive(age) == age <= cache_ttl

CacheFresh(age) == age < cache_ttl

\* Objects no list and no cache entry refers to are reclaimed.
Roots(cache, data, procs, ret) ==
    {cache[p].info : p \in DOMAIN cache} \cup Range(data) \cup Range(procs)
        \cup Range(ret) \cup (IF info_local = 0 THEN {} ELSE {info_local})

Collect(h, roots) == [o \in (DOMAIN h) \cap roots |-> h[o]]

NewObj(h) ==
    CHOOSE o \in ObjIds \ DOMAIN h : \A o2 \in ObjIds \ DOMAIN h : o <= o2

CacheRemove(cache, pid) == [p \in (DOMAIN cache) \ {pid} |-> cache[p]]

CachePut(cache, pid, obj, now) ==
    [p \in (DOMAIN cache) \cup {pid} |->
        IF p = pid THEN [info |-> obj, timestamp |-> now] ELSE cache[p]]

NoLookup ==
    [pid |-> 0, found |-> FALSE, age |-> 0, cheap |-> "none", full |-> "none",
     replaced |-> FALSE]

\* A sort by the instantaneous CPU figure.
SortKeyCpu(info) == <<info.cpu_percent, 1>>

\* The sort of the published list: stable, descending by key.
SortKey(info) == info.avg_cpu_percent

\* list.sort(key=..., reverse=True): descending by key, entries of equal key
\* in the order they had.  The entry at i goes behind those that come before
\* it in that order.
SortDesc(objs, h) ==
    LET n == Len(objs)
        Key(i) == SortKey(h[objs[i]])
        Before(j, i) == RatGt(Key(j), Key(i)) \/ (j < i /\ RatGe(Key(j), Key(i)))
        Place(i) == Cardinality({j \in 1 .. n : j # i /\ Before(j, i)}) + 1
    IN [k \in 1 .. n |-> objs[CHOOSE i \in 1 .. n : Place(i) = k]]

----------------------------------------------------------------------------
(* _get_process_info, for the head of the candidates *)

otherVars == <<histVars, avgVars, restVars>>

\* What the call leaves behind once it returned obj (or nothing, obj = 0).
Returned(obj, cache2, heap2, hist2, look) ==
    /\ process_cache' = cache2
    /\ process_cpu_history' = hist2
    /\ processes' = IF obj = 0 THEN processes ELSE Append(processes, obj)
    /\ candidates' = Tail(candidates)
    /\ lookup' = look
    /\ heap' = Collect(heap2, Roots(cache2, process_data, processes', retObjs))
    /\ UNCHANGED <<clock, threshold, update_event, process_data,
                   last_cache_cleanup, pc, current_time, last_full_update,
                   path, retObjs, thrSet, fullTicks, reqs, otherVars>>

\* Lines 182-281: the full read, started with cache cache0 and heap heap0.
FullRead(pid, cache0, heap0, look) ==
    \/ \E cpu_percent \in CpuVals :
          LET hist2 == UpdateProcessCpuHistory(process_cpu_history, pid, clock,
                                               cpu_percent)
              info == ProcessInfo(pid, cpu_percent,
                                  StatusOf(cpu_percent, threshold),
                                  CalculateAverageCpu(hist2, pid, clock))
              obj == NewObj(heap0)
              heap2 == [o \in (DOMAIN heap0) \cup {obj} |->
                            IF o = obj THEN info ELSE heap0[o]]
          IN Returned(obj, CachePut(cache0, pid, obj, clock), heap2, hist2,
                      [look EXCEPT !.full = "ok", !.replaced = TRUE])
    \/ \* psutil.NoSuchProcess
       Returned(0, CacheRemove(cache0, pid), heap0, process_cpu_history,
                [look EXCEPT !.full = "gone"])
    \/ \* psutil.AccessDenied
       LET info == ProcessInfo(pid, 0, "N/A", Rat(0, 1))
           obj == NewObj(heap0)
           heap2 == [o \in (DOMAIN heap0) \cup {obj} |->
                         IF o = obj THEN info ELSE heap0[o]]
       IN Returned(obj, CachePut(cache0, pid, obj, clock), heap2,
                   process_cpu_history,
                   [look EXCEPT !.full = "denied", !.replaced = TRUE])
    \/ \* any other exception, or one inside the AccessDenied handler
       Returned(0, cache0, heap0, process_cpu_history,
                [look EXCEPT !.full = "error"])

Looked(pid) ==
    LET found == pid \in DOMAIN process_cache
    IN [NoLookup EXCEPT !.pid = pid, !.found = found,
          !.age = IF found THEN clock - process_cache[pid].timestamp ELSE 0]

TakesCheapPath(pid) ==
    /\ pid \in DOMAIN process_cache
    /\ CacheFresh(clock - process_cache[pid].timestamp)

\* Lines 163-176: the cache entry is young, CPU and memory are refreshed in
\* place and the cached object is returned.
GetInfoCheap ==
    /\ pc = "proc" /\ candidates # <<>>
    /\ TakesCheapPath(Head(candidates))
    /\ \E cpu_percent \in CpuVals :
          LET pid == Head(candidates)
              obj == process_cache[pid].info
              hist2 == UpdateProcessCpuHistory(process_cpu_history, pid, clock,
                                               cpu_percent)
              heap2 == [heap EXCEPT ![obj] =
                           [@ EXCEPT !.cpu_percent = cpu_percent,
                                     !.status = StatusOf(cpu_percent, threshold),
                                     !.avg_cpu_percent =
                                         CalculateAverageCpu(hist2, pid, clock)]]
          IN Returned(obj, process_cache, heap2, hist2,
                      [Looked(pid) EXCEPT !.cheap = "ok"])

\* Lines 177-179, then 182-281: the refresh raises (at cpu_percent(), or at
\* memory_percent() after cpu_percent was already stored), the entry is
\* deleted and the full read follows.
GetInfoCheapFails ==
    /\ pc = "proc" /\ candidates # <<>>
    /\ TakesCheapPath(Head(candidates))
    /\ LET pid == Head(candidates)
           obj == process_cache[pid].info
           look == [Looked(pid) EXCEPT !.cheap = "fail"]
       IN \/ FullRead(pid, CacheRemove(process_cache, pid), heap, look)
          \/ \E cpu_percent \in CpuVals :
                FullRead(pid, CacheRemove(process_cache, pid),
                         [heap EXCEPT ![obj].cpu_percent = cpu_percent], look)

\* Lines 163-166 not taken, then 182-281: no entry, or an entry at or past
\* the TTL.
GetInfoFull ==
    /\ pc = "proc" /\ candidates # <<>>
    /\ ~TakesCheapPath(Head(candidates))
    /\ FullRead(Head(candidates), process_cache, heap, Looked(Head(candidates)))

----------------------------------------------------------------------------
(* _monitor_loop, one step per statement group.  The time a statement takes *)
(* is small against the second the clock counts in: time passes in sleep.   *)

\* A loop that goes on whatever running is.
LoopConditionTrue(flag) == TRUE

\* Line 341: while self.running.
LoopCondition(flag) == flag

\* Lines 341-343: running is set, a new iteration reads the clock.  (The
\* system-stat refresh of line 346 touches only system_data and history_data:
\* see SpecHist and SpecStats.)
LoopTop ==
    /\ pc = "loop_top"
    /\ LoopCondition(running)
    /\ current_time' = clock
    /\ pc' = "cleanup_cache"
    /\ lookup' = NoLookup
    /\ UNCHANGED <<clock, threshold, update_event, process_data, heap,
                   process_cache, last_cache_cleanup, process_cpu_history,
                   last_full_update, processes, candidates, path, retObjs,
                   thrSet, fullTicks, reqs, otherVars>>

\* A sweep that takes every entry for expired.
ExpiredAll(cache, now) == DOMAIN cache

Expired(cache, now) == {p \in DOMAIN cache : now - cache[p].timestamp > cache_ttl}

\* Lines 283-296.
CleanupProcessCache ==
    /\ pc = "cleanup_cache"
    /\ IF clock - last_cache_cleanup > CacheCleanupPeriod
       THEN /\ process_cache' =
                  [p \in (DOMAIN process_cache) \ Expired(process_cache, clock)
                      |-> process_cache[p]]
            /\ last_cache_cleanup' = clock
       ELSE UNCHANGED <<process_cache, last_cache_cleanup>>
    /\ heap' = Collect(heap, Roots(process_cache', process_data, processes, retObjs))
    /\ pc' = "cleanup_history"
    /\ UNCHANGED <<clock, threshold, update_event, process_data,
                   process_cpu_history, current_time, last_full_update,
                   processes, candidates, path, retObjs, thrSet, fullTicks,
                   lookup, reqs, otherVars>>

\* Lines 115-129.
CleanupHistoryStep ==
    /\ pc = "cleanup_history"
    /\ process_cpu_history' = CleanupProcessHistory(process_cpu_history, clock)
    /\ pc' = "decide"
    /\ UNCHANGED <<clock, threshold, update_event, process_data, heap,
                   process_cache, last_cache_cleanup, current_time,
                   last_full_update, processes, candidates, path, retObjs,
                   thrSet, fullTicks, lookup, reqs, otherVars>>

\* A decision that looks at the elapsed time only.
FullUpdateNeededByTime(event, now, last) == now - last >= FullUpdatePeriod

\* A decision that waits for more than the period.
FullUpdateNeededLate(event, now, last) == event \/ now - last > FullUpdatePeriod

FullUpdateNeeded(event, now, last) == event \/ now - last >= FullUpdatePeriod

\* Lines 353-355.
Decide ==
    /\ pc = "decide"
    /\ pc' = IF FullUpdateNeeded(update_event, current_time, last_full_update)
             THEN "clear" ELSE "sleep"
    /\ UNCHANGED <<clock, threshold, update_event, process_data, heap,
                   process_cache, last_cache_cleanup, process_cpu_history,
                   current_time, last_full_update, processes, candidates, path,
                   retObjs, thrSet, fullTicks, lookup, reqs, otherVars>>

\* Lines 357-361.
ClearEvent ==
    /\ pc = "clear"
    /\ running => fullTicks < MaxFullTicks
    /\ fullTicks' = fullTicks + 1
    /\ update_event' = FALSE
    /\ last_full_update' = current_time
    /\ processes' = <<>>
    /\ pc' = "enumerate"
    /\ heap' = Collect(heap, Roots(process_cache, process_data, <<>>, retObjs))
    /\ UNCHANGED <<clock, threshold, process_data, process_cache,
                   last_cache_cleanup, process_cpu_history, current_time,
                   candidates, path, retObjs, thrSet, lookup, reqs, otherVars>>

\* Lines 366-370: the process table as enumerated, pre-ranked by the CPU
\* figure the OS reports (any order), cut to the first 100.  An enumeration
\* that raises (line 377) leaves nothing to read, like an empty one.
Enumerate ==
    /\ pc = "enumerate"
    /\ \E cs \in InjSeqs(table) : candidates' = Take(cs, MaxProcesses)
    /\ path' = "primary"
    /\ pc' = "proc"
    /\ reqs' = [reqs EXCEPT !.unserved = FALSE]
    /\ UNCHANGED <<clock, threshold, update_event, process_data, heap,
                   process_cache, last_cache_cleanup, process_cpu_history,
                   current_time, last_full_update, processes, retObjs, thrSet,
                   fullTicks, lookup, otherVars>>

\* A fallback that follows every primary enumeration.
FallbackAlways(enumeration, procs) == enumeration = "primary"

\* Line 381: if not processes, after the primary enumeration.
FallbackNeeded(enumeration, procs) == enumeration = "primary" /\ procs = <<>>

\* Lines 373-381: the candidates are read; with none obtained on the primary
\* path the fallback is tried, otherwise the list goes to the sort.
ProcDone ==
    /\ pc = "proc" /\ candidates = <<>>
    /\ pc' = IF FallbackNeeded(path, processes) THEN "fallback" ELSE "publish"
    /\ lookup' = NoLookup
    /\ UNCHANGED <<clock, threshold, update_event, process_data, heap,
                   process_cache, last_cache_cleanup, process_cpu_history,
                   current_time, last_full_update, processes, candidates, path,
                   retObjs, thrSet, fullTicks, reqs, otherVars>>

\* The order the OS reports PIDs in: ascending.
IsOsOrder(cs) == \A i, j \in DOMAIN cs : i < j => cs[i] < cs[j]

\* Lines 383-393: psutil.pids()[:100] in the order the OS reports; a PID
\* psutil.Process() rejects is skipped.
FallbackEnumerate ==
    /\ pc = "fallback"
    /\ \E cs \in {c \in InjSeqs(table) : IsOsOrder(c)} :
          candidates' = Take(cs, MaxProcesses)
    /\ path' = "fallback"
    /\ pc' = "proc"
    /\ UNCHANGED <<clock, threshold, update_event, process_data, heap,
                   process_cache, last_cache_cleanup, process_cpu_history,
                   current_time, last_full_update, processes, retObjs, thrSet,
                   fullTicks, lookup, reqs, otherVars>>

\* Lines 396-400: sort, then publish under the lock.
Publish ==
    /\ pc = "publish"
    /\ processes' = SortDesc(processes, heap)
    /\ process_data' = processes'
    /\ thrSet' = FALSE
    /\ pc' = "notify"
    /\ heap' = Collect(heap, Roots(process_cache, process_data', processes', retObjs))
    /\ UNCHANGED <<clock, threshold, update_event, process_cache,
                   last_cache_cleanup, process_cpu_history, current_time,
                   last_full_update, candidates, path, retObjs, fullTicks,
                   lookup, reqs, otherVars>>

\* Lines 403-408.
Notify ==
    /\ pc = "notify"
    /\ pc' = "sleep"
    /\ UNCHANGED <<clock, threshold, update_event, process_data, heap,
                   process_cache, last_cache_cleanup, process_cpu_history,
                   current_time, last_full_update, processes, candidates, path,
                   retObjs, thrSet, fullTicks, lookup, reqs, otherVars>>

\* time.sleep(self.update_interval): it lasts update_interval or longer, in
\* whole seconds of the clock, and raises ValueError for a negative length.
SleepTimes == {d \in 0 .. MaxSleep : RatGe(<<d, 1>>, update_interval)}

SleepRaises == ~RatGe(update_interval, <<0, 1>>)

\* The time the model follows a running engine for ends at StartTime + MaxTime.
Slept(d) ==
    /\ d \in SleepTimes
    /\ running => clock + d <= StartTime + MaxTime
    /\ clock' = clock + d

\* Line 411, no exception.
Sleep ==
    /\ pc = "sleep"
    /\ ~SleepRaises
    /\ \E d \in 0 .. MaxSleep : Slept(d)
    /\ pc' = "loop_top"
    /\ UNCHANGED <<threshold, update_event, process_data, heap, process_cache,
                   last_cache_cleanup, process_cpu_history, current_time,
                   last_full_update, processes, candidates, path, retObjs,
                   thrSet, fullTicks, lookup, reqs, otherVars>>

Worker ==
    \/ LoopTop
    \/ CleanupProcessCache
    \/ CleanupHistoryStep
    \/ Decide
    \/ ClearEvent
    \/ Enumerate
    \/ GetInfoCheap
    \/ GetInfoCheapFails
    \/ GetInfoFull
    \/ ProcDone
    \/ FallbackEnumerate
    \/ Publish
    \/ Notify
    \/ Sleep

----------------------------------------------------------------------------
(* The control API, called from other threads *)

\* Lines 428-431: a copy of the list, holding the same ProcessInfo objects.
GetProcessList ==
    /\ retObjs' = process_data
    /\ heap' = Collect(heap, Roots(process_cache, process_data, processes, retObjs'))
    /\ UNCHANGED <<clock, threshold, update_event, process_data, process_cache,
                   last_cache_cleanup, process_cpu_history, pc, current_time,
                   last_full_update, processes, candidates, path, thrSet,
                   fullTicks, lookup, reqs, otherVars>>

\* Lines 433-436.
RequestUpdate ==
    /\ update_event' = TRUE
    /\ UNCHANGED <<clock, threshold, process_data, heap, process_cache,
                   last_cache_cleanup, process_cpu_history, pc, current_time,
                   last_full_update, processes, candidates, path, retObjs,
                   thrSet, fullTicks, lookup, reqs, otherVars>>

\* Lines 487-490.
SetThreshold ==
    /\ \E t \in ThresholdVals : threshold' = t
    /\ thrSet' = TRUE
    /\ UNCHANGED <<clock, update_event, process_data, heap, process_cache,
                   last_cache_cleanup, process_cpu_history, pc, current_time,
                   last_full_update, processes, candidates, path, retObjs,
                   fullTicks, lookup, reqs, otherVars>>

----------------------------------------------------------------------------
NoHistory == [cpu |-> <<>>, memory |-> <<>>, timestamps |-> <<>>]

NoQuery == [pid |-> 0, now |-> 0, result |-> <<0, 1>>, asked |-> FALSE]

NoRequest == [n |-> 0, at |-> "none", unserved |-> FALSE]

NoArg == <<0, 0>>

NoKill == [pc |-> "idle", pid |-> 0, result |-> "none", found |-> "none"]

NoReader == [pc |-> "idle", call |-> "none", waited |-> FALSE]

\* Lines 35-42, the sampled fields; an empty dict is written 0.
NoStats == [cpu_percent |-> 0, memory_percent |-> 0, cpu_freq |-> 0,
            cpu_stats |-> 0, memory_stats |-> 0]

\* Lines 27-66: the state after construction with update_interval = interval,
\* on the platform plat, where the OS reports the processes tbl.
Constructed(interval, tbl, plat) ==
    /\ clock = StartTime
    /\ threshold = DefaultThreshold
    /\ update_event = FALSE
    /\ process_data = <<>>
    /\ heap = <<>>
    /\ process_cache = <<>>
    /\ last_cache_cleanup = StartTime
    /\ process_cpu_history = <<>>
    /\ pc = "loop_top"
    /\ current_time = 0
    /\ last_full_update = 0
    /\ processes = <<>>
    /\ candidates = <<>>
    /\ path = "primary"
    /\ retObjs = <<>>
    /\ thrSet = FALSE
    /\ fullTicks = 0
    /\ lookup = NoLookup
    /\ history_data = NoHistory
    /\ sampleCount = 0
    /\ histRead = NoHistory
    /\ avgQuery = NoQuery
    /\ reqs = NoRequest
    /\ running = TRUE
    /\ update_interval = interval
    /\ shut = [pc |-> "idle", calls |-> 0]
    /\ stoppedAsleep = FALSE
    /\ lastSet = NoArg
    /\ table = tbl
    /\ platform = plat
    /\ kill = NoKill
    /\ info_local = 0
    /\ notFound = {}
    /\ data_lock = "free"
    /\ upc = "idle"
    /\ system_data = NoStats
    /\ statsRead = NoStats
    /\ reader = NoReader
    /\ left = {}
    /\ holder = <<>>

\* The engine built with the default arguments, on a machine that runs the
\* processes PIDs.
Init == Constructed(<<DefaultUpdateInterval, 1>>, PIDs, "linux")

Next ==
    \/ Worker
    \/ GetProcessList
    \/ RequestUpdate

Spec == Init /\ [][Next]_vars

NextThr ==
    \/ Worker
    \/ RequestUpdate
    \/ SetThreshold

SpecThr == Init /\ [][NextThr]_vars

----------------------------------------------------------------------------
(* The worker's loop with its exits, and the calls that control it: repeated *)
(* request_update, set_update_interval, shutdown.  The engine is built with  *)
(* any of the intervals IntervalArgs.  The enumerations of lines 366 and 384 *)
(* yield no process (they raise, or report none), so that every full tick    *)
(* publishes an empty list and _get_process_info is not called.              *)

LoopTable == {}

\* Lines 411-413: time.sleep raises inside the try, the handler is entered.
SleepFails ==
    /\ pc = "sleep"
    /\ SleepRaises
    /\ pc' = "except"
    /\ UNCHANGED <<clock, threshold, update_event, process_data, heap,
                   process_cache, last_cache_cleanup, process_cpu_history,
                   current_time, last_full_update, processes, candidates, path,
                   retObjs, thrSet, fullTicks, lookup, reqs, otherVars>>

\* Lines 414-416: the handler logs and sleeps.  An exception its own
\* time.sleep raises is caught by nothing: it ends _monitor_loop and the
\* thread.
HandlerSleep ==
    /\ pc = "except"
    /\ IF SleepRaises
       THEN pc' = "dead" /\ clock' = clock
       ELSE pc' = "loop_top" /\ \E d \in 0 .. MaxSleep : Slept(d)
    /\ UNCHANGED <<threshold, update_event, process_data, heap, process_cache,
                   last_cache_cleanup, process_cpu_history, current_time,
                   last_full_update, processes, candidates, path, retObjs,
                   thrSet, fullTicks, lookup, reqs, otherVars>>

\* Line 341: running is false, the loop and the thread end.
LoopExit ==
    /\ pc = "loop_top"
    /\ ~LoopCondition(running)
    /\ pc' = "exited"
    /\ UNCHANGED <<clock, threshold, update_event, process_data, heap,
                   process_cache, last_cache_cleanup, process_cpu_history,
                   current_time, last_full_update, processes, candidates, path,
                   retObjs, thrSet, fullTicks, lookup, reqs, otherVars>>

WorkerLoop ==
    \/ LoopTop
    \/ CleanupProcessCache
    \/ CleanupHistoryStep
    \/ Decide
    \/ ClearEvent
    \/ Enumerate
    \/ ProcDone
    \/ FallbackEnumerate
    \/ Publish
    \/ Notify
    \/ Sleep
    \/ SleepFails
    \/ HandlerSleep
    \/ LoopExit

\* Event.set() n times over.
RECURSIVE RequestUpdateTimes(_, _)
RequestUpdateTimes(event, n) ==
    IF n = 0 THEN event ELSE RequestUpdateTimes(TRUE, n - 1)

\* Lines 433-436, called n times in a row.
RequestUpdateBurst ==
    /\ \E n \in 1 .. MaxRequests :
          /\ update_event' = RequestUpdateTimes(update_event, n)
          /\ reqs' = [n |-> n, at |-> pc, unserved |-> TRUE]
    /\ UNCHANGED <<clock, threshold, process_data, heap, process_cache,
                   last_cache_cleanup, process_cpu_history, pc, current_time,
                   last_full_update, processes, candidates, path, retObjs,
                   thrSet, fullTicks, lookup, otherVars>>

\* Python's max(a, b): b if b > a, else a.
RatMax(a, b) == IF RatGt(b, a) THEN b ELSE a

\* Lines 492-495.
SetUpdateInterval ==
    /\ \E interval \in IntervalArgs :
          /\ update_interval' = RatMax(IntervalFloor, interval)
          /\ lastSet' = interval
    /\ UNCHANGED <<procVars, histVars, avgVars, running, shut, stoppedAsleep,
                   envVars, killVars, statVars, lockVars, exitVars>>

\* Lines 497-501: running is cleared, then the caller waits in join.
Shutdown ==
    /\ shut.pc = "idle"
    /\ shut.calls < MaxShutdowns
    /\ running' = FALSE
    /\ shut' = [pc |-> "joining", calls |-> shut.calls + 1]
    /\ stoppedAsleep' = (stoppedAsleep \/ (running /\ pc = "sleep"))
    /\ UNCHANGED <<procVars, histVars, avgVars, update_interval, lastSet,
                   envVars, killVars, statVars, lockVars, exitVars>>

\* Line 502: join(timeout=2) returns, the thread having ended or not.
ShutdownReturn ==
    /\ shut.pc = "joining"
    /\ shut' = [shut EXCEPT !.pc = "idle"]
    /\ UNCHANGED <<procVars, histVars, avgVars, running, update_interval,
                   stoppedAsleep, lastSet, envVars, killVars, statVars,
                   lockVars, exitVars>>

InitLoop == \E interval \in IntervalArgs : Constructed(interval, LoopTable, "linux")

NextLoop ==
    \/ WorkerLoop
    \/ RequestUpdateBurst
    \/ SetUpdateInterval
    \/ Shutdown
    \/ ShutdownReturn

SpecLoop == InitLoop /\ [][NextLoop]_vars

\* The thread is scheduled as long as it is alive, and join returns at the
\* latest after its timeout.
SpecLoopFair == SpecLoop /\ WF_vars(WorkerLoop) /\ WF_vars(ShutdownReturn)

----------------------------------------------------------------------------
(* kill_process, called from another thread while the worker runs.  It     *)
(* takes no lock, so its steps interleave with those of _get_process_info, *)
(* whose full read is followed here in two steps: the read of the process  *)
(* and the write of the cache entry.                                       *)

KillTable == {1}

\* Lines 182-235: the entry is missing or too old; the process is read, its
\* history extended, and the ProcessInfo built.
GetInfoFullRead ==
    /\ pc = "proc" /\ candidates # <<>>
    /\ ~TakesCheapPath(Head(candidates))
    /\ \E cpu_percent \in CpuVals :
          LET pid == Head(candidates)
              hist2 == UpdateProcessCpuHistory(process_cpu_history, pid, clock,
                                               cpu_percent)
              info == ProcessInfo(pid, cpu_percent,
                                  StatusOf(cpu_percent, threshold),
                                  CalculateAverageCpu(hist2, pid, clock))
              obj == NewObj(heap)
          IN /\ heap' = [o \in (DOMAIN heap) \cup {obj} |->
                            IF o = obj THEN info ELSE heap[o]]
             /\ process_cpu_history' = hist2
             /\ info_local' = obj
    /\ lookup' = Looked(Head(candidates))
    /\ pc' = "store"
    /\ UNCHANGED <<clock, threshold, update_event, process_data, process_cache,
                   last_cache_cleanup, current_time, last_full_update,
                   processes, candidates, path, retObjs, thrSet, fullTicks,
                   reqs, histVars, avgVars, ctlVars, envVars, kill,
                   notFound, statVars, lockVars, exitVars>>

\* Lines 237-245: the ProcessInfo is put into the cache and returned.
GetInfoFullStore ==
    /\ pc = "store"
    /\ process_cache' = CachePut(process_cache, Head(candidates), info_local, clock)
    /\ processes' = Append(processes, info_local)
    /\ candidates' = Tail(candidates)
    /\ info_local' = 0
    /\ lookup' = [lookup EXCEPT !.full = "ok", !.replaced = TRUE]
    /\ heap' = Collect(heap, Roots(process_cache', process_data, processes', retObjs))
    /\ pc' = "proc"
    /\ UNCHANGED <<clock, threshold, update_event, process_data,
                   last_cache_cleanup, process_cpu_history, current_time,
                   last_full_update, path, retObjs, thrSet, fullTicks, reqs,
                   histVars, avgVars, ctlVars, envVars, kill, notFound,
                   statVars, lockVars, exitVars>>

\* The ProcessInfo objects of pid that exist when its process is terminated.
MarkReadBeforeKill(h, pid) ==
    [o \in DOMAIN h |->
        IF h[o].pid = pid THEN [h[o] EXCEPT !.read_before_kill = TRUE] ELSE h[o]]

killFrame == <<clock, threshold, update_event, process_data,
               last_cache_cleanup, process_cpu_history, pc, current_time,
               last_full_update, processes, candidates, path, retObjs, thrSet,
               fullTicks, lookup, reqs, histVars, avgVars, ctlVars, platform,
               info_local, statVars, lockVars,
               exitVars>>

\* kill_process has returned result, having found the process in the state
\* found.
KillReturned(pid, result, found) ==
    /\ kill' = [pc |-> "idle", pid |-> pid, result |-> result, found |-> found]
    /\ notFound' = IF found = "gone" THEN notFound \cup {pid} ELSE notFound

\* The process is asked to end: it leaves the OS's table at once, or stays
\* in it while it winds down.
Terminated(pid, found) ==
    /\ pid \in table
    /\ table' \in {table, table \ {pid}}
    /\ heap' = MarkReadBeforeKill(heap, pid)
    /\ kill' = [pc |-> "check", pid |-> pid, result |-> "none", found |-> found]
    /\ UNCHANGED notFound

\* Lines 454-456 and the handlers of what they raise: the process is looked
\* up and asked to terminate.
KillTerminate ==
    /\ kill.pc = "idle"
    /\ \E pid \in KillTable :
          \/ \* terminate() went through
             Terminated(pid, "terminated")
          \/ \* psutil.NoSuchProcess, lines 464-466: the process has ended
             /\ table' = table \ {pid}
             /\ KillReturned(pid, FALSE, "gone")
             /\ UNCHANGED heap
          \/ \* psutil.AccessDenied on Windows, lines 470-472: taskkill is run
             \* and its exit status dropped, whether it killed the process
             /\ platform = "win32"
             /\ \/ Terminated(pid, "taskkill_killed")
                \/ /\ pid \in table
                   /\ kill' = [pc |-> "check", pid |-> pid, result |-> "none",
                               found |-> "taskkill_denied"]
                   /\ UNCHANGED <<heap, table, notFound>>
          \/ \* psutil.AccessDenied elsewhere, lines 467-470 and 482
             /\ platform # "win32"
             /\ pid \in table
             /\ KillReturned(pid, FALSE, "denied")
             /\ UNCHANGED <<heap, table>>
          \/ \* any other exception, lines 483-485
             /\ KillReturned(pid, FALSE, "error")
             /\ UNCHANGED <<heap, table>>
    /\ UNCHANGED <<killFrame, process_cache>>

\* Lines 459 and 475: is there a cache entry for the pid; without one the
\* call returns True (lines 462-463, 478-479).
KillCheck ==
    /\ kill.pc = "check"
    /\ IF kill.pid \in DOMAIN process_cache
       THEN /\ kill' = [kill EXCEPT !.pc = "del"]
            /\ UNCHANGED notFound
       ELSE KillReturned(kill.pid, TRUE, kill.found)
    /\ UNCHANGED <<killFrame, table, process_cache, heap>>

\* Lines 460 and 476: the entry is deleted and the call returns True; if the
\* worker has deleted it since the test, del raises KeyError and the call
\* returns False (lines 483-485, 480-481).
KillDel ==
    /\ kill.pc = "del"
    /\ IF kill.pid \in DOMAIN process_cache
       THEN /\ process_cache' = CacheRemove(process_cache, kill.pid)
            /\ KillReturned(kill.pid, TRUE, kill.found)
       ELSE /\ process_cache' = process_cache
            /\ KillReturned(kill.pid, FALSE, kill.found)
    /\ heap' = Collect(heap, Roots(process_cache', process_data, processes, retObjs))
    /\ UNCHANGED <<killFrame, table>>

InitKill == \E plat \in Platforms :
                Constructed(<<DefaultUpdateInterval, 1>>, KillTable, plat)

NextKill ==
    \/ Worker
    \/ GetInfoFullRead
    \/ GetInfoFullStore
    \/ RequestUpdate
    \/ GetProcessList
    \/ KillTerminate
    \/ KillCheck
    \/ KillDel

SpecKill == InitKill /\ [][NextKill]_vars

----------------------------------------------------------------------------
(* The CPU history tracker on its own: each call reads time.time(), the    *)
(* wall clock, which an adjustment can set forwards or backwards between   *)
(* two calls.  The values read are inputs.                                 *)

AvgPids == {5, 6}
RecordTimes == {-40, -30, -10, 0, 60, 120}
EvalTimes == {60, 150}
AvgCpuVals == {10, 20, 30}

procLocals == <<threshold, update_event, process_data, heap, process_cache,
                last_cache_cleanup, pc, current_time, last_full_update,
                processes, candidates, path, retObjs, thrSet, fullTicks,
                lookup, reqs>>

SampleTimes(samples) == {samples[i][1] : i \in DOMAIN samples}

\* Lines 131-137, for a PID sampled at an instant it was not sampled at before.
AvgRecord ==
    /\ \E t \in RecordTimes, cpu_percent \in AvgCpuVals :
          /\ 5 \in DOMAIN process_cpu_history =>
                /\ Len(process_cpu_history[5]) < MaxAvgSamples
                /\ t \notin SampleTimes(process_cpu_history[5])
          /\ process_cpu_history' =
                UpdateProcessCpuHistory(process_cpu_history, 5, t, cpu_percent)
    /\ avgQuery' = NoQuery
    /\ UNCHANGED <<clock, procLocals, histVars, restVars>>

\* Lines 139-155.
AvgCalculate ==
    /\ \E pid \in AvgPids, now \in EvalTimes :
          avgQuery' = [pid |-> pid, now |-> now, asked |-> TRUE,
                       result |-> CalculateAverageCpu(process_cpu_history, pid, now)]
    /\ UNCHANGED <<clock, process_cpu_history, procLocals, histVars, restVars>>

\* Lines 115-129.
AvgCleanup ==
    /\ \E now \in EvalTimes :
          process_cpu_history' = CleanupProcessHistory(process_cpu_history, now)
    /\ avgQuery' = NoQuery
    /\ UNCHANGED <<clock, procLocals, histVars, restVars>>

NextAvg ==
    \/ AvgRecord
    \/ AvgCalculate
    \/ AvgCleanup

SpecAvg == Init /\ [][NextAvg]_vars

----------------------------------------------------------------------------
(* The system-stat sampling and the history ring.  A sample's readings are *)
(* written as its number, so that the points can be told apart.            *)

SampleCpu(k) == k

SampleMemory(k) == 2 * k

SampleTime(k) == StartTime + k

\* A cut that keeps the first history_max_points points.
FirstPoints(series) ==
    IF Len(series) > history_max_points
    THEN SubSeq(series, 1, history_max_points)
    ELSE series

LastPoints(series) ==
    IF Len(series) > history_max_points
    THEN SubSeq(series, Len(series) - history_max_points + 1, Len(series))
    ELSE series

\* Lines 322-331: one point is appended to each series, which is then cut to
\* its last history_max_points points, all under the lock.
AppendHistory(h, k) ==
    [cpu |-> LastPoints(Append(h.cpu, SampleCpu(k))),
     memory |-> LastPoints(Append(h.memory, SampleMemory(k))),
     timestamps |-> LastPoints(Append(h.timestamps, SampleTime(k)))]

\* Lines 298-333, no call raising.
UpdateSystemStats ==
    /\ sampleCount < MaxSamples
    /\ sampleCount' = sampleCount + 1
    /\ history_data' = AppendHistory(history_data, sampleCount + 1)
    /\ UNCHANGED <<histRead, procVars, avgVars, restVars>>

\* Lines 334-336: a call raised (those made under the lock are made before
\* system_data.update runs), nothing was written.
UpdateSystemStatsFails ==
    /\ UNCHANGED vars

\* A reader that takes no notice of the lock.
CanReadUnlocked(lock) == TRUE

\* Lines 440 and 445: with self.data_lock, entered once the lock is free.
CanRead(lock) == lock = "free"

\* Lines 443-450.  Of the two readers' results, the one of the last call is
\* kept.
GetHistoryData ==
    /\ CanRead(data_lock)
    /\ histRead' = history_data
    /\ statsRead' = NoStats
    /\ UNCHANGED <<history_data, sampleCount, procVars, avgVars, ctlVars,
                   envVars, killVars, data_lock, upc, system_data,
                   lockVars, exitVars>>

NextHist ==
    \/ UpdateSystemStats
    \/ UpdateSystemStatsFails
    \/ GetHistoryData

SpecHist == Init /\ [][NextHist]_vars

----------------------------------------------------------------------------
(* _update_system_stats statement by statement, against readers that call  *)
(* get_system_stats and get_history_data from other threads.  The sample   *)
(* being written is number sampleCount + 1.                                *)

statsFrame == <<procVars, avgVars, ctlVars, envVars, killVars, lockVars,
                exitVars>>

SampleFreq(k) == 3 * k

SampleCpuStats(k) == 4 * k

SampleMemoryStats(k) == 5 * k

\* An update that stores the two percentages and leaves the other fields.
SampledPercentages(old, k) ==
    [old EXCEPT !.cpu_percent = SampleCpu(k), !.memory_percent = SampleMemory(k)]

\* Lines 306-319: the one dict system_data.update() is called with.
SampledFields(old, k) ==
    [old EXCEPT !.cpu_percent = SampleCpu(k),
                !.memory_percent = SampleMemory(k),
                !.cpu_freq = SampleFreq(k),
                !.cpu_stats = SampleCpuStats(k),
                !.memory_stats = SampleMemoryStats(k)]

\* Lines 301-305: the readings are taken, then the lock.
StatsAcquire ==
    /\ upc = "idle" /\ data_lock = "free"
    /\ sampleCount < MaxSamples
    /\ data_lock' = "worker"
    /\ upc' = "cpu_times"
    /\ UNCHANGED <<system_data, statsRead, histVars, statsFrame>>

\* Lines 310-314: the argument of update() is built, with three calls of
\* psutil.cpu_times_percent().
StatsCpuTimes ==
    /\ upc = "cpu_times"
    /\ upc' = "update"
    /\ UNCHANGED <<data_lock, system_data, statsRead, histVars, statsFrame>>

\* Lines 310-314, then 334-336: one of those calls raises; the with block
\* gives the lock back and the handler logs.
StatsCpuTimesFails ==
    /\ upc = "cpu_times"
    /\ data_lock' = "free"
    /\ upc' = "idle"
    /\ UNCHANGED <<system_data, statsRead, histVars, statsFrame>>

\* Lines 306-319: system_data.update(...) with the argument built.
StatsUpdate ==
    /\ upc = "update"
    /\ system_data' = SampledFields(system_data, sampleCount + 1)
    /\ upc' = "append_cpu"
    /\ UNCHANGED <<data_lock, statsRead, histVars, statsFrame>>

\* Line 322.
StatsAppendCpu ==
    /\ upc = "append_cpu"
    /\ history_data' = [history_data EXCEPT
                           !.cpu = Append(@, SampleCpu(sampleCount + 1))]
    /\ upc' = "append_memory"
    /\ UNCHANGED <<sampleCount, histRead, data_lock, system_data, statsRead,
                   statsFrame>>

\* Line 323.
StatsAppendMemory ==
    /\ upc = "append_memory"
    /\ history_data' = [history_data EXCEPT
                           !.memory = Append(@, SampleMemory(sampleCount + 1))]
    /\ upc' = "append_timestamps"
    /\ UNCHANGED <<sampleCount, histRead, data_lock, system_data, statsRead,
                   statsFrame>>

\* Lines 324 and 327: the timestamp is appended and the length tested.
StatsAppendTimestamp ==
    /\ upc = "append_timestamps"
    /\ history_data' = [history_data EXCEPT
                           !.timestamps = Append(@, SampleTime(sampleCount + 1))]
    /\ upc' = IF Len(history_data.cpu) > history_max_points
              THEN "trim_cpu" ELSE "release"
    /\ UNCHANGED <<sampleCount, histRead, data_lock, system_data, statsRead,
                   statsFrame>>

\* Line 328.
StatsTrimCpu ==
    /\ upc = "trim_cpu"
    /\ history_data' = [history_data EXCEPT !.cpu = LastPoints(@)]
    /\ upc' = "trim_memory"
    /\ UNCHANGED <<sampleCount, histRead, data_lock, system_data, statsRead,
                   statsFrame>>

\* Line 329.
StatsTrimMemory ==
    /\ upc = "trim_memory"
    /\ history_data' = [history_data EXCEPT !.memory = LastPoints(@)]
    /\ upc' = "trim_timestamps"
    /\ UNCHANGED <<sampleCount, histRead, data_lock, system_data, statsRead,
                   statsFrame>>

\* Line 330.
StatsTrimTimestamps ==
    /\ upc = "trim_timestamps"
    /\ history_data' = [history_data EXCEPT !.timestamps = LastPoints(@)]
    /\ upc' = "release"
    /\ UNCHANGED <<sampleCount, histRead, data_lock, system_data, statsRead,
                   statsFrame>>

\* The end of the with block of line 305: the lock is given back.
StatsRelease ==
    /\ upc = "release"
    /\ data_lock' = "free"
    /\ sampleCount' = sampleCount + 1
    /\ upc' = "idle"
    /\ UNCHANGED <<history_data, histRead, system_data, statsRead, statsFrame>>

\* Lines 438-441.  Of the two readers' results, the one of the last call is
\* kept.
GetSystemStats ==
    /\ CanRead(data_lock)
    /\ statsRead' = system_data
    /\ histRead' = NoHistory
    /\ UNCHANGED <<history_data, sampleCount, data_lock, upc, system_data,
                   statsFrame>>

NextStats ==
    \/ StatsAcquire
    \/ StatsCpuTimes
    \/ StatsCpuTimesFails
    \/ StatsUpdate
    \/ StatsAppendCpu
    \/ StatsAppendMemory
    \/ StatsAppendTimestamp
    \/ StatsTrimCpu
    \/ StatsTrimMemory
    \/ StatsTrimTimestamps
    \/ StatsRelease
    \/ UpdateSystemStatsFails
    \/ GetSystemStats
    \/ GetHistoryData

SpecStats == Init /\ [][NextStats]_vars

----------------------------------------------------------------------------
(* data_lock: where the worker takes it in one iteration of _monitor_loop, *)
(* and a thread that calls the read API.  What is done under the lock is   *)
(* followed in the other specifications; here only who holds it.           *)

ReadCalls == {"get_process_list", "get_system_stats", "get_history_data"}

LockedPositions == {"stats_locked", "cleanup_history_locked",
                    "update_history_locked", "average_locked",
                    "publish_locked"}

lockFrame == <<clock, threshold, update_event, process_data, heap,
               process_cache, last_cache_cleanup, process_cpu_history,
               current_time, last_full_update, processes, path, retObjs,
               thrSet, fullTicks, lookup, reqs, histVars, avgVars, ctlVars,
               envVars, killVars, upc, system_data, statsRead, exitVars>>

\* An exception that leaves a with block and keeps the lock.
HeldOnRaise(lock) == lock

\* An exception leaves the with block: the lock is given back.
ReleasedOnRaise(lock) == "free"

\* The worker goes from one position to the next.
WorkerAt(from, to) ==
    /\ pc = from
    /\ pc' = to
    /\ UNCHANGED <<lockFrame, reader>>

\* with self.data_lock, entered by the worker: it waits until the lock is
\* free.
WorkerTakes ==
    /\ data_lock = "free"
    /\ data_lock' = "worker"

\* Lines 341-346.
LockLoopTop ==
    /\ LoopCondition(running)
    /\ WorkerAt("loop_top", "stats")
    /\ UNCHANGED <<data_lock, candidates>>

\* Lines 301-303, then 334-336: a reading raises before the lock is taken.
LockStatsReadingsFail ==
    /\ WorkerAt("stats", "cleanup_history")
    /\ UNCHANGED <<data_lock, candidates>>

\* Lines 301-305.
LockStatsAcquire ==
    /\ WorkerAt("stats", "stats_locked")
    /\ WorkerTakes
    /\ UNCHANGED candidates

\* Lines 306-331: the stats and the history are written, the block ends.
LockStatsRelease ==
    /\ WorkerAt("stats_locked", "cleanup_history")
    /\ data_lock' = "free"
    /\ UNCHANGED candidates

\* Lines 310-314, then 334-336: psutil.cpu_times_percent() raises under the
\* lock.
LockStatsFails ==
    /\ WorkerAt("stats_locked", "cleanup_history")
    /\ data_lock' = ReleasedOnRaise(data_lock)
    /\ UNCHANGED candidates

\* Line 120 (_cleanup_process_cache, lines 283-296, takes no lock).
LockCleanupAcquire ==
    /\ WorkerAt("cleanup_history", "cleanup_history_locked")
    /\ WorkerTakes
    /\ UNCHANGED candidates

\* Lines 121-129.
LockCleanupRelease ==
    /\ WorkerAt("cleanup_history_locked", "decide")
    /\ data_lock' = "free"
    /\ UNCHANGED candidates

\* Lines 353-378: no full tick, or a full tick with the processes it is to
\* read.
LockDecide ==
    /\ \/ /\ WorkerAt("decide", "sleep")
          /\ UNCHANGED candidates
       \/ /\ \E cs \in InjSeqs(table) : candidates' = cs
          /\ WorkerAt("decide", IF candidates' = <<>> THEN "publish"
                                ELSE "update_history")
    /\ UNCHANGED data_lock

\* The worker is done with the head of the candidates.
NextCandidate ==
    /\ candidates' = Tail(candidates)
    /\ pc' = IF candidates' = <<>> THEN "publish" ELSE "update_history"
    /\ UNCHANGED <<lockFrame, reader>>

\* Lines 168 and 190 raise: the process cannot be read, its history is not
\* touched.
LockReadFails ==
    /\ pc = "update_history"
    /\ NextCandidate
    /\ UNCHANGED data_lock

\* Line 134, called from lines 174 and 194.
LockUpdateAcquire ==
    /\ WorkerAt("update_history", "update_history_locked")
    /\ WorkerTakes
    /\ UNCHANGED candidates

\* Lines 135-137.
LockUpdateRelease ==
    /\ WorkerAt("update_history_locked", "average")
    /\ data_lock' = "free"
    /\ UNCHANGED candidates

\* Line 141, called from lines 175 and 195.
LockAverageAcquire ==
    /\ WorkerAt("average", "average_locked")
    /\ WorkerTakes
    /\ UNCHANGED candidates

\* Lines 142-155.
LockAverageRelease ==
    /\ pc = "average_locked"
    /\ NextCandidate
    /\ data_lock' = "free"

\* Line 399.
LockPublishAcquire ==
    /\ WorkerAt("publish", "publish_locked")
    /\ WorkerTakes
    /\ UNCHANGED candidates

\* Line 400.
LockPublishRelease ==
    /\ WorkerAt("publish_locked", "sleep")
    /\ data_lock' = "free"
    /\ UNCHANGED candidates

\* Line 411.
LockSleep ==
    /\ WorkerAt("sleep", "loop_top")
    /\ UNCHANGED <<data_lock, candidates>>

WorkerLock ==
    \/ LockLoopTop
    \/ LockStatsReadingsFail
    \/ LockStatsAcquire
    \/ LockStatsRelease
    \/ LockStatsFails
    \/ LockCleanupAcquire
    \/ LockCleanupRelease
    \/ LockDecide
    \/ LockReadFails
    \/ LockUpdateAcquire
    \/ LockUpdateRelease
    \/ LockAverageAcquire
    \/ LockAverageRelease
    \/ LockPublishAcquire
    \/ LockPublishRelease
    \/ LockSleep

\* get_process_list, get_system_stats or get_history_data is called.
ReaderCall ==
    /\ reader.pc = "idle"
    /\ \E c \in ReadCalls :
          reader' = [pc |-> "waiting", call |-> c, waited |-> data_lock # "free"]
    /\ UNCHANGED <<lockFrame, pc, candidates, data_lock>>

\* Lines 430, 440, 445: with self.data_lock.
ReaderAcquire ==
    /\ reader.pc = "waiting"
    /\ CanRead(data_lock)
    /\ data_lock' = "reader"
    /\ reader' = [reader EXCEPT !.pc = "holding"]
    /\ UNCHANGED <<lockFrame, pc, candidates>>

\* Lines 431, 441, 446-450: the copy is made and returned, the block ends.
ReaderReturn ==
    /\ reader.pc = "holding"
    /\ data_lock' = "free"
    /\ reader' = [reader EXCEPT !.pc = "idle"]
    /\ UNCHANGED <<lockFrame, pc, candidates>>

NextLock ==
    \/ WorkerLock
    \/ ReaderCall
    \/ ReaderAcquire
    \/ ReaderReturn

SpecLock == Init /\ [][NextLock]_vars

\* The worker thread and the reader are scheduled.  The worker leaves the
\* lock free for the whole of its sleep in every iteration, so a reader that
\* waits for the lock comes to take it.
SpecLockFair ==
    /\ SpecLock
    /\ WF_vars(WorkerLock)
    /\ SF_vars(ReaderAcquire)
    /\ WF_vars(ReaderReturn)

----------------------------------------------------------------------------
(* A full tick over several processes while kill_process is called for one *)
(* of them.  _get_process_info is followed through its uses of the cache,  *)
(* line by line.  A process is readable as long as it is in the OS's       *)
(* table, and an enumeration reports the whole table.                      *)

RaceTable == {1, 2, 3}

RaceCpu == 10

Perms(S) == {cs \in InjSeqs(S) : Len(cs) = Cardinality(S)}

raceFrame == <<clock, threshold, update_event, process_data,
               last_cache_cleanup, current_time, last_full_update, path,
               retObjs, thrSet, fullTicks, lookup, reqs, otherVars>>

\* Lines 366-370: every process of the table, ranked in some order.
RaceEnumerate ==
    /\ pc = "enumerate"
    /\ \E cs \in Perms(table) : candidates' = Take(cs, MaxProcesses)
    /\ path' = "primary"
    /\ pc' = "proc"
    /\ UNCHANGED <<clock, threshold, update_event, process_data, heap,
                   process_cache, last_cache_cleanup, process_cpu_history,
                   current_time, last_full_update, processes, retObjs, thrSet,
                   fullTicks, lookup, reqs, otherVars>>

\* Lines 383-384: psutil.pids()[:100].
RaceFallbackEnumerate ==
    /\ pc = "fallback"
    /\ \E cs \in {c \in Perms(table) : IsOsOrder(c)} :
          candidates' = Take(cs, MaxProcesses)
    /\ path' = "fallback"
    /\ pc' = "proc"
    /\ UNCHANGED <<clock, threshold, update_event, process_data, heap,
                   process_cache, last_cache_cleanup, process_cpu_history,
                   current_time, last_full_update, processes, retObjs, thrSet,
                   fullTicks, lookup, reqs, otherVars>>

\* _get_process_info returns obj (or None, obj = 0) for the head of the
\* candidates, and the loop goes on to the next.
RaceReturned(obj, cache2, heap2, hist2) ==
    /\ process_cache' = cache2
    /\ process_cpu_history' = hist2
    /\ processes' = IF obj = 0 THEN processes ELSE Append(processes, obj)
    /\ candidates' = Tail(candidates)
    /\ heap' = Collect(heap2, Roots(cache2, process_data, processes', retObjs))
    /\ pc' = "proc"
    /\ UNCHANGED raceFrame

\* Lines 182-281, started with the cache cache0: the process is read and
\* cached, or it is gone (psutil.NoSuchProcess, lines 247-251).
RaceFullRead(pid, cache0) ==
    IF pid \in table
    THEN LET hist2 == UpdateProcessCpuHistory(process_cpu_history, pid, clock,
                                              RaceCpu)
             info == ProcessInfo(pid, RaceCpu, StatusOf(RaceCpu, threshold),
                                 CalculateAverageCpu(hist2, pid, clock))
             obj == NewObj(heap)
             heap2 == [o \in (DOMAIN heap) \cup {obj} |->
                          IF o = obj THEN info ELSE heap[o]]
         IN RaceReturned(obj, CachePut(cache0, pid, obj, clock), heap2, hist2)
    ELSE RaceReturned(0, CacheRemove(cache0, pid), heap, process_cpu_history)

\* An exception leaves _get_process_info.  On the primary path it ends the
\* for loop of line 373 (handler of line 377); on the fallback path the
\* handler of line 389 goes on with the next PID.
RaceRaised ==
    /\ candidates' = IF path = "primary" THEN <<>> ELSE Tail(candidates)
    /\ pc' = "proc"
    /\ UNCHANGED <<process_cache, process_cpu_history, processes, heap,
                   raceFrame>>

\* Line 163: pid in self.process_cache.
RaceLookup ==
    /\ pc = "proc" /\ candidates # <<>>
    /\ IF Head(candidates) \in DOMAIN process_cache
       THEN /\ pc' = "entry"
            /\ UNCHANGED <<process_cache, process_cpu_history, processes,
                           candidates, heap, raceFrame>>
       ELSE RaceFullRead(Head(candidates), process_cache)

\* Lines 164-176: the entry is fetched (KeyError if it is no longer there),
\* its age tested, and a young entry refreshed from the process.
RaceEntry ==
    /\ pc = "entry"
    /\ LET pid == Head(candidates)
       IN IF pid \notin DOMAIN process_cache
          THEN RaceRaised
          ELSE IF ~CacheFresh(clock - process_cache[pid].timestamp)
          THEN RaceFullRead(pid, process_cache)
          ELSE IF pid \in table
          THEN LET obj == process_cache[pid].info
                   hist2 == UpdateProcessCpuHistory(process_cpu_history, pid,
                                                    clock, RaceCpu)
                   heap2 == [heap EXCEPT ![obj] =
                                [@ EXCEPT !.cpu_percent = RaceCpu,
                                          !.status = StatusOf(RaceCpu, threshold),
                                          !.avg_cpu_percent =
                                              CalculateAverageCpu(hist2, pid, clock)]]
               IN RaceReturned(obj, process_cache, heap2, hist2)
          ELSE /\ pc' = "refresh_failed"
               /\ UNCHANGED <<process_cache, process_cpu_history, processes,
                              candidates, heap, raceFrame>>

\* Lines 177-179, then 182-281: del self.process_cache[pid] (KeyError if the
\* entry is no longer there), then the full read.
RaceDel ==
    /\ pc = "refresh_failed"
    /\ IF Head(candidates) \in DOMAIN process_cache
       THEN RaceFullRead(Head(candidates),
                         CacheRemove(process_cache, Head(candidates)))
       ELSE RaceRaised

InitRace == Constructed(<<DefaultUpdateInterval, 1>>, RaceTable, "linux")

NextRace ==
    \/ LoopTop
    \/ CleanupProcessCache
    \/ CleanupHistoryStep
    \/ Decide
    \/ ClearEvent
    \/ RaceEnumerate
    \/ RaceLookup
    \/ RaceEntry
    \/ RaceDel
    \/ ProcDone
    \/ RaceFallbackEnumerate
    \/ Publish
    \/ Notify
    \/ Sleep
    \/ RequestUpdate
    \/ KillTerminate
    \/ KillCheck
    \/ KillDel

SpecRace == InitRace /\ [][NextRace]_vars

----------------------------------------------------------------------------
(* A full tick over a process table of more than 100 processes, all of     *)
(* them readable.                                                           *)

TopTable == 1 .. MaxTable

\* The PIDs of S, lowest first: the order of psutil.pids().
Ascending(S) ==
    [i \in 1 .. Cardinality(S) |->
        CHOOSE x \in S : Cardinality({y \in S : y < x}) = i - 1]

\* The PIDs of S, highest first.
Descending(S) ==
    [i \in 1 .. Cardinality(S) |->
        CHOOSE x \in S : Cardinality({y \in S : y > x}) = i - 1]

\* The identity of the ProcessInfo built for pid in this full tick.
TopObj(pid) == fullTicks * (MaxTable + 1) + pid

\* Lines 366-370: the table ranked with the low PIDs or with the high PIDs
\* first and cut to 100, or an enumeration that raises (line 377).
TopEnumerate ==
    /\ pc = "enumerate"
    /\ \E cs \in {Ascending(table), Descending(table), <<>>} :
          candidates' = Take(cs, MaxProcesses)
    /\ path' = "primary"
    /\ pc' = "proc"
    /\ UNCHANGED <<clock, threshold, update_event, process_data, heap,
                   process_cache, last_cache_cleanup, process_cpu_history,
                   current_time, last_full_update, processes, retObjs, thrSet,
                   fullTicks, lookup, reqs, otherVars>>

\* Lines 383-384: psutil.pids()[:100].
TopFallbackEnumerate ==
    /\ pc = "fallback"
    /\ candidates' = Take(Ascending(table), MaxProcesses)
    /\ path' = "fallback"
    /\ pc' = "proc"
    /\ UNCHANGED <<clock, threshold, update_event, process_data, heap,
                   process_cache, last_cache_cleanup, process_cpu_history,
                   current_time, last_full_update, processes, retObjs, thrSet,
                   fullTicks, lookup, reqs, otherVars>>

\* Lines 161-245: _get_process_info for a readable process, by the cheap
\* path when its entry is young and by the full read otherwise.
TopRead ==
    /\ pc = "proc" /\ candidates # <<>>
    /\ LET pid == Head(candidates)
           hist2 == UpdateProcessCpuHistory(process_cpu_history, pid, clock,
                                            RaceCpu)
           avg == CalculateAverageCpu(hist2, pid, clock)
       IN IF TakesCheapPath(pid)
          THEN LET obj == process_cache[pid].info
               IN RaceReturned(obj, process_cache,
                     [heap EXCEPT ![obj] =
                         [@ EXCEPT !.cpu_percent = RaceCpu,
                                   !.status = StatusOf(RaceCpu, threshold),
                                   !.avg_cpu_percent = avg]],
                     hist2)
          ELSE LET obj == TopObj(pid)
                   info == ProcessInfo(pid, RaceCpu,
                                       StatusOf(RaceCpu, threshold), avg)
               IN RaceReturned(obj, CachePut(process_cache, pid, obj, clock),
                     [o \in (DOMAIN heap) \cup {obj} |->
                         IF o = obj THEN info ELSE heap[o]],
                     hist2)

InitTop == Constructed(<<DefaultUpdateInterval, 1>>, TopTable, "linux")

NextTop ==
    \/ LoopTop
    \/ CleanupProcessCache
    \/ CleanupHistoryStep
    \/ Decide
    \/ ClearEvent
    \/ TopEnumerate
    \/ TopRead
    \/ ProcDone
    \/ TopFallbackEnumerate
    \/ Publish
    \/ Notify
    \/ Sleep
    \/ RequestUpdate

SpecTop == InitTop /\ [][NextTop]_vars

----------------------------------------------------------------------------
(* The engine followed for longer than the history window, while processes *)
(* of the table end.  The table only shrinks: the PID of a process that    *)
(* ended is not given to a new one.  A process is readable as long as it   *)
(* is in the table, and an enumeration reports the whole table.            *)

ReclaimTable == {1, 2}

\* The model follows the engine until every sample taken of a process that
\* ended by StartTime + LastExit has left the window, and for one sleep more.
ReclaimEnd == StartTime + LastExit + history_window + 1 + MaxSleep

reclaimFrame == <<histVars, avgVars, ctlVars, platform, killVars, statVars,
                  lockVars>>

\* A process ends, while the engine is anywhere in its loop.
ProcessExits ==
    /\ clock <= StartTime + LastExit
    /\ \E pid \in table :
          /\ table' = table \ {pid}
          /\ left' = IF /\ pid \in DOMAIN process_cache
                        /\ pid \in DOMAIN process_cpu_history
                     THEN left \cup {pid} ELSE left
    /\ UNCHANGED <<procVars, reclaimFrame, holder>>

\* Lines 357-361, the full ticks not counted.
ReclaimClear ==
    /\ pc = "clear"
    /\ update_event' = FALSE
    /\ last_full_update' = current_time
    /\ processes' = <<>>
    /\ pc' = "enumerate"
    /\ heap' = Collect(heap, Roots(process_cache, process_data, <<>>, retObjs))
    /\ UNCHANGED <<clock, threshold, process_data, process_cache,
                   last_cache_cleanup, process_cpu_history, current_time,
                   candidates, path, retObjs, thrSet, fullTicks, lookup, reqs,
                   otherVars>>

\* Line 411, no exception, up to the end of the time followed: the sleep
\* lasts update_interval and no longer.
ReclaimSleep ==
    /\ pc = "sleep"
    /\ ~SleepRaises
    /\ \E d \in {t \in SleepTimes : RatGe(update_interval, <<t, 1>>)} :
          /\ clock + d <= ReclaimEnd
          /\ clock' = clock + d
    /\ pc' = "loop_top"
    /\ UNCHANGED <<threshold, update_event, process_data, heap, process_cache,
                   last_cache_cleanup, process_cpu_history, current_time,
                   last_full_update, processes, candidates, path, retObjs,
                   thrSet, fullTicks, lookup, reqs, otherVars>>

\* request_update(), called while processes may still end.
ReclaimRequestUpdate ==
    /\ clock <= StartTime + LastExit
    /\ RequestUpdate

WorkerReclaim ==
    \/ LoopTop
    \/ CleanupProcessCache
    \/ CleanupHistoryStep
    \/ Decide
    \/ ReclaimClear
    \/ RaceEnumerate
    \/ RaceLookup
    \/ RaceEntry
    \/ RaceDel
    \/ ProcDone
    \/ RaceFallbackEnumerate
    \/ Publish
    \/ Notify
    \/ ReclaimSleep

InitReclaim == Constructed(<<DefaultUpdateInterval, 1>>, ReclaimTable, "linux")

NextReclaim ==
    \/ WorkerReclaim
    \/ ReclaimRequestUpdate
    \/ ProcessExits

SpecReclaim == InitReclaim /\ [][NextReclaim]_vars

\* The worker thread is scheduled as long as it can take a step.
SpecReclaimFair == SpecReclaim /\ WF_vars(WorkerReclaim)

----------------------------------------------------------------------------
(* The cycle while the OS gives the PID of a process that ended to a new   *)
(* process.  The PID changes hands between the reads of two enumerations.  *)

ReuseTable == {1}

\* The process of pid ends and a new process is started under the same PID.
PidReused ==
    /\ candidates = <<>>
    /\ \E pid \in table :
          /\ Holder(pid) < MaxReuse
          /\ holder' =
                [p \in (DOMAIN holder) \cup {pid} |->
                    IF p = pid
                    THEN [name |-> Holder(pid) + 1,
                          inherited |-> IF pid \in DOMAIN process_cpu_history
                                        THEN Len(process_cpu_history[pid])
                                        ELSE 0]
                    ELSE holder[p]]
    /\ UNCHANGED <<procVars, histVars, avgVars, ctlVars, envVars, killVars,
                   statVars, lockVars, left>>

InitReuse == Constructed(<<DefaultUpdateInterval, 1>>, ReuseTable, "linux")

NextReuse ==
    \/ Worker
    \/ RequestUpdate
    \/ PidReused

SpecReuse == InitReuse /\ [][NextReuse]_vars

----------------------------------------------------------------------------
(* Properties of the published process list *)

AvgOf(list, h, i) == h[list[i]].avg_cpu_percent

IsSortedByAvg(list, h) ==
    \A i \in 1 .. Len(list) - 1 : RatGe(AvgOf(list, h, i), AvgOf(list, h, i + 1))

FieldsOf(list, h) == [i \in DOMAIN list |-> h[list[i]]]

StatusesOf(list, h) == [i \in DOMAIN list |-> h[list[i]].status]

\* C1: at the moment a full tick publishes its list (the worker has just
\* assigned process_data), the list is ordered by avg_cpu_percent,
\* non-increasing: each entry's average is >= that of the entry after it.
C1_SortedAtPublish == pc = "notify" => IsSortedByAvg(process_data, heap)

\* A list of two was published whose first entry has the strictly greater
\* average although its instantaneous CPU is not the greater one.
C1_Witness ==
    /\ pc = "notify"
    /\ Len(process_data) = 2
    /\ RatGt(AvgOf(process_data, heap, 1), AvgOf(process_data, heap, 2))
    /\ heap[process_data[1]].cpu_percent <= heap[process_data[2]].cpu_percent

\* C2: every list get_process_list() returns is, when it is returned, sorted
\* descending by avg_cpu_percent, also when the call is made while the worker
\* is refreshing cached ProcessInfo objects in the middle of the next tick.
C2_ReturnedListSorted == [][GetProcessList => IsSortedByAvg(retObjs', heap')]_vars

\* C3: every entry of a published list has status High exactly when its
\* rolling average exceeds the threshold in force when it was computed; in
\* particular every entry whose average exceeds the threshold is marked High.
\* (Under Spec the threshold never changes.)
C3_StatusFollowsAverage ==
    pc = "notify" =>
        \A i \in DOMAIN process_data :
            LET info == heap[process_data[i]]
            IN info.status = "HIGH" <=>
                  RatGt(info.avg_cpu_percent, <<threshold, 1>>)

\* C4: a list returned by get_process_list() is an immutable copy: while the
\* caller holds it, no field of its entries changes, whatever the worker does.
C4_ReturnedListImmutable ==
    [][retObjs' = retObjs => FieldsOf(retObjs, heap') = FieldsOf(retObjs, heap)]_vars

\* C5: after set_threshold(T), the status of every entry of the list already
\* published stays as it was until the next full tick publishes a new list.
C5_PublishedStatusKept ==
    [][(thrSet /\ thrSet') =>
          StatusesOf(process_data, heap') = StatusesOf(process_data, heap)]_vars

----------------------------------------------------------------------------
(* Properties of _get_process_info's use of the cache *)

\* C10, as stated: with a cache entry found, the cheap path is taken, and no
\* full re-read made, iff the entry's age is strictly below 5 s; at an age of
\* 5 s or more a full re-read is made and the entry is replaced.
C10_CheapIffYoungAndReplaced ==
    lookup.found =>
        /\ (lookup.cheap # "none" /\ lookup.full = "none") <=> lookup.age < 5
        /\ lookup.age >= 5 => (lookup.full # "none" /\ lookup.replaced)

\* C10, amended: with a cache entry found, the cheap refresh is attempted iff
\* the entry's age is strictly below 5 s; a refresh that succeeds is followed
\* by no full re-read, one that raises deletes the entry and is followed by a
\* full re-read; at an age of 5 s or more a full re-read is made.  A full
\* re-read replaces the entry (timestamp now) when it succeeds or is denied,
\* removes it when the process has vanished, and on any other error leaves
\* what it found.
C10_CheapIffYoung ==
    lookup.found =>
        /\ lookup.cheap # "none" <=> lookup.age < 5
        /\ lookup.cheap = "ok" => lookup.full = "none"
        /\ lookup.cheap = "fail" => lookup.full # "none"
        /\ lookup.age >= 5 => lookup.full # "none"
        /\ lookup.full \in {"ok", "denied"} =>
              /\ lookup.replaced
              /\ lookup.pid \in DOMAIN process_cache
              /\ process_cache[lookup.pid].timestamp = clock
              /\ processes # <<>>
              /\ process_cache[lookup.pid].info = processes[Len(processes)]
        /\ lookup.full = "gone" => lookup.pid \notin DOMAIN process_cache
        /\ (lookup.full = "error" /\ lookup.cheap = "fail") =>
              lookup.pid \notin DOMAIN process_cache
        /\ (lookup.full = "error" /\ lookup.cheap = "none") =>
              /\ lookup.pid \in DOMAIN process_cache
              /\ clock - process_cache[lookup.pid].timestamp = lookup.age

\* An entry aged exactly 5 s was found and fully re-read.
C10_Witness ==
    /\ lookup.found
    /\ lookup.age = 5
    /\ lookup.cheap = "none"
    /\ lookup.full = "ok"
    /\ process_cache[lookup.pid].timestamp = clock

----------------------------------------------------------------------------
(* Properties of the loop's control *)

\* C11: any number n >= 1 of request_update() calls made before the worker
\* next decides (in particular while it sleeps) leave the flag set whatever n
\* is; the next decision of line 353 then starts a full tick, whose one
\* clear() leaves the flag clear; and a decision taken with the flag clear
\* less than 5 s after the last full tick starts none.
C11_BurstCausesOneFullTick ==
    [][/\ RequestUpdateBurst => update_event'
       /\ ClearEvent => ~update_event'
       /\ (pc = "decide" /\ pc' # "decide") =>
             /\ update_event => pc' = "clear"
             /\ (~update_event /\ current_time - last_full_update < 5) =>
                   pc' = "sleep"]_vars

\* The last calls were two or more in a row, made while the worker slept; the
\* second full tick, begun less than 5 s after the first, has used them up, and
\* the iteration after it is about to decide with the flag clear.
C11_Witness ==
    /\ reqs.n >= 2 /\ reqs.at = "sleep" /\ ~reqs.unserved
    /\ pc = "decide" /\ ~update_event
    /\ fullTicks = 2
    /\ last_full_update - StartTime < 5
    /\ current_time > last_full_update
    /\ current_time - last_full_update < 5

\* The worker is held by the end of the model's time or ticks.
AtModelEnd ==
    /\ running
    /\ \/ pc = "clear" /\ fullTicks >= MaxFullTicks
       \/ /\ pc \in {"sleep", "except"}
          /\ ~SleepRaises
          /\ \A d \in SleepTimes : clock + d > StartTime + MaxTime

\* C12: no refresh request is lost: after request_update() is called on a
\* running engine the worker eventually begins the process enumeration of a
\* full tick (as far as the model follows a running engine).
C12_RequestServed ==
    (reqs.unserved /\ running) ~> (~reqs.unserved \/ ~running \/ AtModelEnd)

WorkerEnded == pc \in {"exited", "dead"}

\* C16: after shutdown() is called it returns, and the worker eventually
\* leaves its loop; with running false no iteration is started and a thread
\* that has ended stays ended; a second shutdown() changes nothing of the
\* engine's state, and returns as well.
C16_ShutdownStopsWorker ==
    /\ (shut.pc = "joining") ~> (shut.pc = "idle")
    /\ (~running) ~> WorkerEnded
    /\ [][/\ ~running => ~LoopTop
          /\ WorkerEnded => pc' = pc
          /\ (Shutdown /\ ~running) =>
                UNCHANGED <<procVars, histVars, avgVars, running,
                            update_interval, envVars, killVars, statVars,
                            lockVars, exitVars>>]_vars

\* shutdown() was called twice and returned twice, and the worker has left
\* its loop at line 341.
C16_Witness ==
    /\ shut = [pc |-> "idle", calls |-> 2]
    /\ ~running
    /\ pc = "exited"

\* C17: when shutdown() is called while the worker sleeps, the sleep is
\* interrupted: the worker leaves it having waited less than update_interval.
C17_SleepInterrupted ==
    [][(stoppedAsleep /\ pc = "sleep" /\ pc' # "sleep") =>
          ~RatGe(<<clock' - clock, 1>>, update_interval)]_vars

\* C18: while running is True the worker's thread never ends, whatever is
\* raised in an iteration and whatever update_interval is.
C18_WorkerSurvives == running => ~WorkerEnded

\* C19: update_interval is never below 0.5 s, whatever the constructor was
\* given and whatever set_update_interval was called with, and after
\* set_update_interval(x) it is max(0.5, x).
C19_IntervalAtLeastFloor ==
    /\ RatGe(update_interval, IntervalFloor)
    /\ lastSet # NoArg => update_interval = RatMax(IntervalFloor, lastSet)

----------------------------------------------------------------------------
(* Properties of kill_process *)

\* C13: kill_process(pid) returns False, and raises nothing, whenever there
\* is no process pid or the OS denies its termination (to terminate() and,
\* on Windows, to taskkill as well), on every platform.
C13_FalseWhenGoneOrDenied ==
    (kill.pc = "idle" /\ kill.found \in {"gone", "denied", "taskkill_denied"}) =>
        kill.result = FALSE

\* The last call of kill_process was for pid and has returned True.
KillReturnedTrue(pid) ==
    /\ kill.pc = "idle" /\ kill.found # "none"
    /\ kill.pid = pid /\ kill.result = TRUE

\* C14: once kill_process(pid) has returned True, the cache never serves, on
\* the cheap path, a ProcessInfo of pid that was read before the termination,
\* however the calls of the worker's _get_process_info for pid interleave
\* with the kill.
C14_NoInfoFromBeforeKillServed ==
    [][(GetInfoCheap /\ KillReturnedTrue(Head(candidates))) =>
          ~heap[process_cache[Head(candidates)].info].read_before_kill]_vars

\* C15: once kill_process(pid) has returned False because no process pid
\* exists, no list get_process_list() returns afterwards has an entry for pid.
C15_NotListedOnceNotFound ==
    [][GetProcessList =>
          \A i \in DOMAIN retObjs' : heap'[retObjs'[i]].pid \notin notFound]_vars

\* C33: kill_process(pid) returns True whenever the termination it asked
\* the OS for went through, whatever the worker does to the cache entry of
\* pid between the membership test and the delete.
C33_TrueWhenTerminated ==
    (kill.pc = "idle" /\ kill.found \in {"terminated", "taskkill_killed"}) =>
        kill.result = TRUE

----------------------------------------------------------------------------
(* Properties of the stats and history readers *)

\* The three series have one length and their points at one index are the
\* readings of one sample.
HistoryWhole(h) ==
    /\ Len(h.cpu) = Len(h.memory)
    /\ Len(h.cpu) = Len(h.timestamps)
    /\ \A i \in 1 .. Len(h.cpu) :
          \E k \in 1 .. MaxSamples :
             /\ h.cpu[i] = SampleCpu(k)
             /\ h.memory[i] = SampleMemory(k)
             /\ h.timestamps[i] = SampleTime(k)

\* The stats are those of the sample the history ends with.
StatsMatchHistory(s, h) ==
    IF h.cpu = <<>>
    THEN s = NoStats
    ELSE /\ s.cpu_percent = h.cpu[Len(h.cpu)]
         /\ h.memory # <<>>
         /\ s.memory_percent = h.memory[Len(h.memory)]

\* C20: every result of get_history_data() has three series of one length
\* whose points at one index come from one sample, every result of
\* get_system_stats() has the cpu_percent and memory_percent of one sample,
\* and system_data and the latest history point change only inside the
\* worker's critical section, agreeing whenever the lock is free.
C20_ReadersSeeWholeUpdates ==
    /\ [](/\ HistoryWhole(histRead)
          /\ \/ statsRead = NoStats
             \/ \E k \in 1 .. MaxSamples :
                   /\ statsRead.cpu_percent = SampleCpu(k)
                   /\ statsRead.memory_percent = SampleMemory(k)
          /\ data_lock = "free" =>
                /\ HistoryWhole(history_data)
                /\ StatsMatchHistory(system_data, history_data))
    /\ [][/\ (system_data' # system_data \/ history_data' # history_data) =>
                (data_lock = "worker" /\ data_lock' = "worker")
          /\ GetHistoryData =>
                (histRead' = history_data /\ StatsMatchHistory(system_data, histRead'))
          /\ GetSystemStats =>
                (statsRead' = system_data /\ StatsMatchHistory(statsRead', history_data))]_vars

C20_Witness ==
    /\ sampleCount = history_max_points + 1
    /\ upc = "idle"
    /\ Len(histRead.cpu) = history_max_points
    /\ histRead.memory[history_max_points] = SampleMemory(sampleCount)
    /\ histRead.timestamps[1] = SampleTime(2)
    /\ system_data.cpu_percent = SampleCpu(sampleCount)

----------------------------------------------------------------------------
(* Properties of a tick *)

\* The objects of the published list are the same and unchanged over a step.
PublishedListKept ==
    /\ process_data' = process_data
    /\ \A i \in DOMAIN process_data : heap'[process_data[i]] = heap[process_data[i]]

\* C29: an iteration performs a full tick iff the update flag is set or 5 s
\* or more have passed since the iteration that started the last full tick;
\* the first iteration after construction is a full tick; every step of an
\* iteration that is not a full tick leaves the published list as it was.
C29_FullTickIffDue ==
    [][/\ Decide =>
            /\ pc' = "clear" <=>
                  (update_event \/ current_time - last_full_update >= 5)
            /\ pc' \in {"clear", "sleep"}
            /\ fullTicks = 0 => pc' = "clear"
       /\ ClearEvent => last_full_update' = current_time
       /\ (Worker /\ last_full_update # current_time) => PublishedListKept
       /\ (Worker /\ ~PublishedListKept) => pc \in {"proc", "publish"}]_vars

C29_Witness ==
    /\ pc = "clear" /\ fullTicks = 1 /\ ~update_event
    /\ current_time - last_full_update = 5
    /\ process_data # <<>>

\* C25: when the primary enumeration and the raw-PID fallback of a full tick
\* both yield no process, the tick is skipped: the list published before
\* stays in place, it is not replaced by an empty list.
C25_EmptyTickKeepsList ==
    [][(Publish /\ path = "fallback" /\ processes = <<>>) =>
          process_data' = process_data]_vars

\* C26: in a full tick the raw-PID fallback runs iff the primary path ended
\* with no ProcessInfo; it reads the PIDs as the OS reports them, in that
\* order and cut to the first 100, and after a primary path that produced an
\* entry, or after the fallback itself, the list goes to the sort.
C26_FallbackIffPrimaryEmpty ==
    [][/\ (ProcDone /\ path = "primary") =>
             /\ pc' = "fallback" <=> processes = <<>>
             /\ pc' \in {"fallback", "publish"}
       /\ (ProcDone /\ path = "fallback") => pc' = "publish"
       /\ (pc' = "fallback" /\ pc # "fallback") => ProcDone
       /\ (path' = "fallback" /\ path # "fallback") => FallbackEnumerate
       /\ FallbackEnumerate =>
             /\ processes = <<>>
             /\ IsOsOrder(candidates')
             /\ Range(candidates') \subseteq table
             /\ Len(candidates') <= 100]_vars

C26_Witness ==
    /\ pc = "proc" /\ path = "fallback" /\ fullTicks = 2
    /\ candidates = <<1, 2>>
    /\ processes = <<>>
    /\ process_data # <<>>

\* C22: the process cache is not touched by two threads at once: once
\* kill_process has found pid in process_cache (lines 459, 475), the entry is
\* still there when it deletes it (lines 460, 476).
C22_CacheCheckThenActHolds ==
    kill.pc = "del" => kill.pid \in DOMAIN process_cache

\* C24: a failure to read one candidate of a full tick, kill_process
\* evicting it from the cache included, costs that process only: the list
\* the tick publishes has an entry for every other process, all of which
\* are in the OS's table, enumerated and readable, throughout the tick.
C24_OthersStillListed ==
    [][Publish =>
          \A pid \in table \ KillTable : \E i \in DOMAIN processes :
             heap[processes[i]].pid = pid]_vars

\* C34: the statuses of one published list come from one threshold: there
\* is a threshold against which every classified entry of the list (one
\* whose status is not "N/A"), with the CPU figure it carries, has the status
\* it carries.
C34_OneThresholdPerList ==
    [][Publish =>
          \E thr \in 0 .. 100 : \A i \in DOMAIN processes' :
             heap'[processes'[i]].status # "N/A" =>
                heap'[processes'[i]].status =
                   StatusOf(heap'[processes'[i]].cpu_percent, thr)]_vars

\* The samples of pid recorded for the process that holds it now.
OwnSamples(hist, pid) ==
    IF pid \in DOMAIN holder
    THEN SubSeq(hist[pid], holder[pid].inherited + 1, Len(hist[pid]))
    ELSE hist[pid]

\* C35: what _get_process_info returns for a process comes from that process
\* only: the name (user, command) is its own, and the average is the average
\* of the samples recorded for it, also when its PID belonged to another
\* process less than 180 s, or less than the cache TTL, ago.
C35_OnlyOwnSamplesAndFields ==
    [][(/\ pc = "proc" /\ candidates # <<>> /\ candidates' = Tail(candidates)
        /\ Len(processes') = Len(processes) + 1) =>
          LET pid == Head(candidates)
              info == heap'[processes'[Len(processes')]]
              own == OwnSamples(process_cpu_history', pid)
          IN /\ info.name = Holder(pid)
             /\ info.status # "N/A" =>
                   info.avg_cpu_percent = Rat(SumCpu(own), Len(own))]_vars

\* The worker is in _get_process_info for pid.
Reading(pid) ==
    /\ pc \in {"proc", "entry", "refresh_failed"}
    /\ candidates # <<>> /\ Head(candidates) = pid

C27_AtMostHundredOnePerPid ==
    /\ Len(process_data) <= 100
    /\ \A i, j \in DOMAIN process_data :
          heap[process_data[i]].pid = heap[process_data[j]].pid => i = j
    /\ pc \in {"proc", "publish", "notify"} =>
          /\ Len(processes) + Len(candidates) <= 100
          /\ \A i, j \in DOMAIN processes :
                heap[processes[i]].pid = heap[processes[j]].pid => i = j

C27_Witness ==
    /\ pc = "notify" /\ path = "fallback" /\ fullTicks = 2
    /\ Len(process_data) = 100
    /\ {heap[process_data[i]].pid : i \in DOMAIN process_data} = 1 .. 100
    /\ Cardinality(table) > 100

----------------------------------------------------------------------------
(* Properties of the reclaiming of entries *)

\* The process of pid ended and no enumeration that reported it is still
\* being read.
Gone(pid) == pid \notin table /\ pid \notin Range(candidates)

Reclaimed(pid) ==
    pid \notin DOMAIN process_cache /\ pid \notin DOMAIN process_cpu_history

\* C28: once a PID is no longer enumerated and the worker keeps running, its
\* cache entry and its CPU-history entry are eventually both removed, and
\* they stay removed.  The cache entry is removed by the sweep of
\* _cleanup_process_cache, the history entry by _cleanup_process_history
\* when every sample of it is older than history_window.
C28_ReclaimedForGood ==
    /\ \A pid \in ReclaimTable : Gone(pid) ~> Reclaimed(pid)
    /\ [][\A pid \in ReclaimTable :
            /\ Gone(pid) /\ Reclaimed(pid) => Reclaimed(pid)'
            /\ (Gone(pid) /\ pid \in DOMAIN process_cache
                  /\ pid \notin DOMAIN process_cache')
                => /\ pc = "cleanup_cache"
                   /\ clock - last_cache_cleanup > CacheCleanupPeriod
            /\ (Gone(pid) /\ pid \in DOMAIN process_cpu_history
                  /\ pid \notin DOMAIN process_cpu_history')
                => /\ pc = "cleanup_history"
                   /\ \A i \in DOMAIN process_cpu_history[pid] :
                         clock - process_cpu_history[pid][i][1]
                             > history_window]_vars

\* PID 1 ended while the engine held a cache entry and samples for it; both
\* are gone now, and PID 2 is still followed.
C28_Witness ==
    /\ 1 \in left /\ Gone(1) /\ Reclaimed(1)
    /\ 2 \in table
    /\ 2 \in DOMAIN process_cache /\ 2 \in DOMAIN process_cpu_history

\* C31: the sweep of _cleanup_process_cache takes effect only when more
\* than 30 s have passed since the previous sweep (or construction); it then
\* removes exactly the entries older than the 5 s TTL and leaves the others
\* as they are; otherwise it leaves the cache and the time of the last sweep
\* unchanged.  Two sweeps that take effect are more than 30 s apart.
C31_SweepOncePerPeriod ==
    [][/\ (pc = "cleanup_cache" /\ pc' = "cleanup_history") =>
             IF clock - last_cache_cleanup > CacheCleanupPeriod
             THEN /\ DOMAIN process_cache' =
                        {p \in DOMAIN process_cache :
                            clock - process_cache[p].timestamp <= cache_ttl}
                  /\ \A p \in DOMAIN process_cache' :
                        process_cache'[p] = process_cache[p]
                  /\ last_cache_cleanup' = clock
             ELSE /\ process_cache' = process_cache
                  /\ last_cache_cleanup' = last_cache_cleanup
       /\ last_cache_cleanup' # last_cache_cleanup =>
             /\ pc = "cleanup_cache"
             /\ last_cache_cleanup' - last_cache_cleanup > CacheCleanupPeriod]_vars

\* A sweep has just removed the entry of PID 1, whose process ended, and
\* kept the young entry of PID 2.
C31_Witness ==
    /\ pc = "cleanup_history" /\ last_cache_cleanup = clock
    /\ clock - StartTime > CacheCleanupPeriod
    /\ 1 \in left /\ Gone(1) /\ 1 \notin DOMAIN process_cache
    /\ 2 \in DOMAIN process_cache
    /\ clock - process_cache[2].timestamp <= cache_ttl

\* C32: every key of process_cpu_history maps to a non-empty list of
\* samples, and right after a run of _cleanup_process_history no PID has a
\* sample older than the time of the run minus history_window.
C32_PrunedAndNonEmpty ==
    /\ [](\A p \in DOMAIN process_cpu_history : process_cpu_history[p] # <<>>)
    /\ [][(pc = "cleanup_history" /\ pc' = "decide") =>
             \A p \in DOMAIN process_cpu_history' :
                \A i \in DOMAIN process_cpu_history'[p] :
                   process_cpu_history'[p][i][1] >= clock - history_window]_vars

\* A prune has just run more than 180 s after the start: the entry of PID 1,
\* whose process ended, is deleted, and PID 2 has lost its first sample and
\* keeps the one that is exactly 180 s old.
C32_Witness ==
    /\ pc = "decide"
    /\ 1 \in left /\ Gone(1) /\ 1 \notin DOMAIN process_cpu_history
    /\ 2 \in DOMAIN process_cpu_history
    /\ process_cpu_history[2][1][1] > StartTime
    /\ process_cpu_history[2][1][1] = clock - history_window

----------------------------------------------------------------------------
(* Properties of _update_system_stats *)

\* C23: data_lock is free whenever the engine queries the operating system:
\* the queries are made before the lock is taken and their results merged
\* under it.
C23_NoOsCallUnderLock == upc = "cpu_times" => data_lock = "free"

\* The stats and the history after n successful samples.
StatsAfter(n) ==
    IF n = 0 THEN NoStats
    ELSE [cpu_percent |-> SampleCpu(n), memory_percent |-> SampleMemory(n),
          cpu_freq |-> SampleFreq(n), cpu_stats |-> SampleCpuStats(n),
          memory_stats |-> SampleMemoryStats(n)]

HistoryAfter(n) ==
    LET kept == IF n < history_max_points THEN n ELSE history_max_points
    IN [cpu |-> [i \in 1 .. kept |-> SampleCpu(n - kept + i)],
        memory |-> [i \in 1 .. kept |-> SampleMemory(n - kept + i)],
        timestamps |-> [i \in 1 .. kept |-> SampleTime(n - kept + i)]]

\* C30: a call of _update_system_stats either stores all five sampled
\* fields of one sample and appends that sample's one point to the history,
\* or, when the sampling raises, leaves stats and history as they were:
\* between calls the stats are never those of several samples.
C30_StatsAllOrNothing ==
    /\ [](upc = "idle" =>
             /\ system_data = StatsAfter(sampleCount)
             /\ history_data = HistoryAfter(sampleCount))
    /\ [][/\ (StatsCpuTimesFails \/ UpdateSystemStatsFails) =>
                UNCHANGED <<system_data, history_data, sampleCount>>
          /\ upc' = "idle" =>
                \/ UNCHANGED <<system_data, history_data, sampleCount>>
                \/ /\ StatsRelease
                   /\ sampleCount' = sampleCount + 1
                   /\ system_data' = StatsAfter(sampleCount')]_vars

C30_Witness ==
    /\ upc = "idle" /\ data_lock = "free"
    /\ sampleCount = history_max_points + 1
    /\ system_data.cpu_stats = SampleCpuStats(sampleCount)
    /\ system_data.memory_stats = SampleMemoryStats(sampleCount)
    /\ history_data.cpu[1] = SampleCpu(2)
    /\ statsRead = system_data

----------------------------------------------------------------------------
(* Properties of data_lock *)

\* C21: no thread takes data_lock while it holds it, the lock is held only
\* inside a with block (every path out of one, raising or not, gives it
\* back), a reader waits for nothing but the lock, and every call of
\* get_process_list, get_system_stats and get_history_data returns.
C21_ReadersReturn ==
    /\ [](/\ data_lock = "worker" <=> pc \in LockedPositions
          /\ data_lock = "reader" <=> reader.pc = "holding"
          /\ (reader.pc = "waiting" /\ data_lock = "free") => ENABLED ReaderAcquire)
    /\ (reader.pc = "waiting") ~> (reader.pc = "idle")

C21_Witness ==
    /\ reader = [pc |-> "idle", call |-> "get_system_stats", waited |-> TRUE]
    /\ pc = "average_locked"

----------------------------------------------------------------------------
(* Properties of the rolling average *)

RECURSIVE SumAt(_, _)
SumAt(samples, I) ==
    IF I = {} THEN 0
    ELSE LET i == CHOOSE j \in I : TRUE
         IN samples[i][2] + SumAt(samples, I \ {i})

\* result is the mean of the samples at the indices I, or 0 with I empty.
IsMeanOf(result, samples, I) ==
    IF I = {} THEN result = <<0, 1>>
    ELSE result[1] * Cardinality(I) = result[2] * SumAt(samples, I)

QueriedSamples ==
    IF avgQuery.pid \in DOMAIN process_cpu_history
    THEN process_cpu_history[avgQuery.pid] ELSE <<>>

\* C6: _calculate_average_cpu(pid) evaluated at time now returns the mean of
\* the cpu values of exactly the PID's samples with t >= now - 180 (one at
\* exactly now - 180 counts, an older one never does), and 0 when the PID has
\* no entry or no such sample.
C6_AverageOverWindow ==
    avgQuery.asked =>
        IsMeanOf(avgQuery.result, QueriedSamples,
                 {i \in DOMAIN QueriedSamples :
                     QueriedSamples[i][1] >= avgQuery.now - 180})

\* The average was taken at 150 over a history holding a sample at exactly
\* -30 = 150 - 180, an older one at -40, and a later one.
C6_Witness ==
    /\ avgQuery.asked /\ avgQuery.pid = 5 /\ avgQuery.now = 150
    /\ {-40, -30, 60} \subseteq SampleTimes(QueriedSamples)
    /\ avgQuery.result # <<0, 1>>

ThreeSamples == {<<0, 10>>, <<60, 20>>, <<120, 30>>}

HistoryIs(S) ==
    /\ 5 \in DOMAIN process_cpu_history
    /\ Range(process_cpu_history[5]) = S
    /\ Len(process_cpu_history[5]) = Cardinality(S)

AskedAt150 == avgQuery.asked /\ avgQuery.pid = 5 /\ avgQuery.now = 150

\* C7, as stated: with the samples (0,10), (60,20), (120,30) of PID 5 the
\* rolling average at now = 150 is 20, and it is still 20 once a further
\* sample with timestamp -10, of any cpu value, is in the history.
C7_UnchangedBySampleAtMinus10 ==
    AskedAt150 =>
        /\ HistoryIs(ThreeSamples) => avgQuery.result = <<20, 1>>
        /\ \A c \in AvgCpuVals :
              HistoryIs(ThreeSamples \cup {<<-10, c>>}) => avgQuery.result = <<20, 1>>

\* C7, amended: with the samples (0,10), (60,20), (120,30) of PID 5 the
\* rolling average at now = 150 is 20; a further sample at -10 with cpu c is
\* inside the window, which starts at 150 - 180 = -30, and makes the result
\* (60 + c) / 4; a further sample older than -30 (here -40) leaves it at 20.
C7_SampleAtMinus10Counts ==
    AskedAt150 =>
        /\ HistoryIs(ThreeSamples) => avgQuery.result = <<20, 1>>
        /\ \A c \in AvgCpuVals :
              /\ HistoryIs(ThreeSamples \cup {<<-10, c>>}) =>
                    /\ avgQuery.result[1] * 4 = avgQuery.result[2] * (60 + c)
                    /\ c # 20 => avgQuery.result # <<20, 1>>
              /\ HistoryIs(ThreeSamples \cup {<<-40, c>>}) =>
                    avgQuery.result = <<20, 1>>

\* The three samples and one at -10 with cpu 30: the average at 150 is 22.5.
C7_Witness ==
    /\ AskedAt150
    /\ HistoryIs(ThreeSamples \cup {<<-10, 30>>})
    /\ avgQuery.result = <<45, 2>>

\* C8: the rolling average never includes a future-dated sample: a sample
\* whose timestamp is greater than the time of the evaluation (the wall clock
\* stepped back in between) does not contribute to the result.
C8_NoFutureSample ==
    avgQuery.asked =>
        IsMeanOf(avgQuery.result, QueriedSamples,
                 {i \in DOMAIN QueriedSamples :
                     /\ QueriedSamples[i][1] >= avgQuery.now - 180
                     /\ QueriedSamples[i][1] <= avgQuery.now})

----------------------------------------------------------------------------
(* Properties of the history ring *)

KeptPoints == IF sampleCount < 100 THEN sampleCount ELSE 100

\* C9: after k successful samples each series holds exactly the last
\* min(k, 100) appended points, oldest first, and no reader ever gets a series
\* longer than 100.
C9_HistoryRing ==
    /\ history_data.cpu =
          [i \in 1 .. KeptPoints |-> SampleCpu(sampleCount - KeptPoints + i)]
    /\ history_data.memory =
          [i \in 1 .. KeptPoints |-> SampleMemory(sampleCount - KeptPoints + i)]
    /\ history_data.timestamps =
          [i \in 1 .. KeptPoints |-> SampleTime(sampleCount - KeptPoints + i)]
    /\ Len(histRead.cpu) <= 100
    /\ Len(histRead.memory) <= 100
    /\ Len(histRead.timestamps) <= 100

\* More than 100 samples were taken and a reader got the ring: 100 points,
\* the oldest being the sample 99 before the last.
C9_Witness ==
    /\ sampleCount > 100
    /\ histRead = history_data
    /\ Len(histRead.cpu) = 100
    /\ histRead.cpu[1] = SampleCpu(sampleCount - 99)
    /\ histRead.timestamps[100] = SampleTime(sampleCount)

====
